---- MODULE Spec2Model ----
(***************************************************************************)
(* Model of the coverage-model persistence core:                           *)
(*   - the brick writer dispatcher (coverage_model/brick_dispatch.py) with *)
(*     its organizer, provisioner and receiver tasks, and the brick writer *)
(*     workers (coverage_model/brick_worker.py);                           *)
(*   - the brick allocation and brick lookup of the persistence layer      *)
(*     (coverage_model/persistence.py).                                    *)
(* A work element carries a ghost id (its submission number) next to its   *)
(* content val; only the content is part of the packed bytes.              *)
(***************************************************************************)
EXTENDS Integers, Sequences, FiniteSets, TLC

\* ---------------------------------------------------------------- bounds
MaxSubmit == 2
MaxSubmitDrain == 2
MaxSubmitShutdown == 2
MaxFail == 5
MaxFailDrain == 1
MaxFailShutdown == 1
MaxSubmitTwice == 1
MaxFailTwice == 1
MaxSubmitRetries == 2
MaxFailRetries == 6
MaxSubmitLoss == 3
MaxFailLoss == 2
MaxSubmitLive == 3
MaxSubmitOrganizer == 3
MaxFailOrganizer == 1
MaxFailLive == 5
MaxExtent == 13
MaxStep == 2
MaxList == 2
MaxSet == 1
MaxFiles == 6
NumRec == 10
MaxDat == 5
MaxDepth == 2

\* ------------------------------------------------------------- constants
WORK_FAILURE_RETRIES == 4
BrickDomain == 6

REQUEST_WORK == "REQUEST_WORK"
SUCCESS == "SUCCESS"
FAILURE == "FAILURE"
NullKey == "null"

Keys == {"a", "b"}
Workers == {"w1", "w2"}
Vals == {1}

VARIABLES
  prep_queue,     \* inbound queue of (work_key, work_metrics, work)
  work_queue,     \* queue of work keys that have pending work
  pending_work,   \* work_key -> (work_metrics, work)
  stashed_work,   \* work_key -> (work_metrics, work)
  active_work,    \* work_key -> (worker_guid, packed work)
  failures,       \* packed packed-work -> failure count
  do_stop,        \* _do_stop
  is_shutdown,    \* _is_shutdown
  org_g,          \* organizer task: "run" | "done"
  prov_g,         \* provisioner task: "run" | "done"
  rec_g,          \* receiver task: "run" | "done" | "dead" (uncaught KeyError)
  sd,             \* progress of shutdown(): "none" | "joining" | "stopping" | "returned" |
                  \* "raised" | "again" (a later call found _is_shutdown set)
  sd_mode,        \* "none" | "graceful" (force=False, timeout=None) | "hard"
  wstate,         \* worker -> "requested" (REQUEST_WORK sent) | "working" | "stopped"
  wwork,          \* worker -> the packed work it received (<<>> when none)
  results,        \* worker -> messages published to the receiver, in order
  brick,          \* work_key -> id of the element written last (0: fill value)
  next_id,        \* number of the next submission
  last_put,       \* work_key -> id of the element submitted last (0: none)
  put_result,     \* outcome of the last put_work: "none" | "queued" | "SystemError"
  resolved,       \* ids written by a worker whose result the receiver has processed
  called,         \* ids passed to failure_callback
  cb_count,       \* number of failure_callback invocations
  attempts,       \* id -> number of failed attempts (FAILURE received) of work containing it
  owed,           \* ids stashed for a key when failure_callback ran for it, or submitted later
  put_left,       \* number of submissions the explored runs may still contain
  fail_left,      \* number of worker failures the explored runs may still contain
  drain,          \* the dirty future: "none" | "waiting" | "resolved"
  drain_snap,     \* ids submitted before the dirty future was requested
  drain_left,     \* ids of drain_snap neither resolved nor called when it resolved
  sd_snap,        \* ids submitted before shutdown was called
  flushed,        \* keys whose pending work an empty work list moved there from the stash
  late,           \* ids of the elements submitted after failure_callback was first invoked
  written         \* ids of the elements a worker has written to their brick

\* the persistence layer of one parameter of rank 1 (sdom is None)
VARIABLES
  total_extents,  \* parameter_domain_dict[name][0][0]: the size of the time axis
  brick_list,     \* brick_guid -> [brick_extents, origin, bD, brick_active_size]
  brick_tree,     \* the rtree: set of [id, rtree_extents, object]
  slice_,         \* the selection of the last _bricks_from_slice call
  hits,           \* what the last _bricks_from_slice call returned
  brick_data,     \* brick_guid -> the dataset of the brick file, cell -> value
  master_links,   \* the master file: brick_guid -> the attributes of its link
  call,           \* the last call of the layer or the storage and its outcome
  last_set,       \* the last __setitem__ call, while no other call changed the layer
  sets_left       \* __setitem__ calls still to be explored

svars == <<total_extents, brick_list, brick_tree, slice_, hits, brick_data,
           master_links, call, last_set, sets_left>>

dvars == <<prep_queue, work_queue, pending_work, stashed_work, active_work,
           failures, do_stop, is_shutdown, org_g, prov_g, rec_g, sd, sd_mode,
           wstate, wwork, results, brick, next_id, last_put, put_result,
           resolved, called, cb_count, attempts, owed, put_left, fail_left,
           drain, drain_snap, drain_left, sd_snap, flushed, late, written>>

\* parameter values held in memory and the quality-control functions
VARIABLES
  shape,          \* domain_set.total_extents[0] of the value, rank 1
  constant_value, \* ConstantValue._value: <<>> (None) or the stored string
  sparse_value,   \* the spans of a sparse-constant value, oldest first
  assigned,       \* what was assigned: the number a constant value accepted last (<<>>:
                  \* none); for a sparse constant every <<domain length, constant>>
  pv_call,        \* the last call of a parameter value and what it returned
  qc,             \* the arguments of a quality-control function and its result
  pf              \* the operands of a parameter-function call and its result

pvars == <<shape, constant_value, sparse_value, assigned, pv_call, qc, pf>>

vars == <<dvars, late, written, svars, pvars>>

\* --------------------------------------------------------------- helpers
Range(s) == {s[i] : i \in 1..Len(s)}

Ids(w) == {w[i].id : i \in 1..Len(w)}

\* content of a work list: what the bytes of a packed work list depend on
Content(w) == [i \in 1..Len(w) |-> w[i].val]

Metrics(k) == <<"brick_path", k>>

\* msgpack: an injective encoding; packing bytes yields different bytes
pack(msg) == <<"msgpack", msg>>

unpack(msg) == msg[2]

\* the bytes of a packed (work_key, work_metrics, work)
Bytes(pw) == pack(<<unpack(pw)[1], unpack(pw)[2], Content(unpack(pw)[3])>>)

Drop(f, k) == [x \in (DOMAIN f) \ {k} |-> f[x]]

Put(f, k, v) == [x \in (DOMAIN f) \cup {k} |-> IF x = k THEN v ELSE f[x]]

has_pending_work == DOMAIN pending_work # {}

has_active_work == DOMAIN active_work # {}

has_stashed_work == DOMAIN stashed_work # {}

is_dirty == has_active_work \/ has_stashed_work \/ has_pending_work

\* _add_failure: the counter is keyed by pack(wp), wp being packed already
add_failure(f, wp) ==
  LET pwp == pack(Bytes(wp))
  IN  IF pwp \in DOMAIN f THEN Put(f, pwp, f[pwp] + 1) ELSE Put(f, pwp, 1)

add_failure_raises(f, wp) == add_failure(f, wp)[pack(Bytes(wp))] > WORK_FAILURE_RETRIES

\* the receiver's SUCCESS branch: if pw in self._failures: self._failures.pop(pw)
clear_failure(f, pw) == IF Bytes(pw) \in DOMAIN f THEN Drop(f, Bytes(pw)) ELSE f

\* the failed attempts after one more failure of work with the ids S
Bump(att, S) ==
  [x \in (DOMAIN att) \cup S |->
     (IF x \in DOMAIN att THEN att[x] ELSE 0) + (IF x \in S THEN 1 ELSE 0)]


\* every order in which a dict of the given keys can be iterated
Orders(S) == {s \in [1..Cardinality(S) -> S] : Range(s) = S}

\* ------------------------------------------------------------------ Init
DInit ==
  /\ prep_queue = <<>>
  /\ work_queue = <<>>
  /\ pending_work = <<>>
  /\ stashed_work = <<>>
  /\ active_work = <<>>
  /\ failures = <<>>
  /\ do_stop = FALSE
  /\ is_shutdown = FALSE
  /\ org_g = "run"
  /\ prov_g = "run"
  /\ rec_g = "run"
  /\ sd = "none"
  /\ sd_mode = "none"
  /\ wstate = [w \in Workers |-> "requested"]
  /\ wwork = [w \in Workers |-> <<>>]
  /\ results = [w \in Workers |-> <<>>]
  /\ brick = [k \in Keys |-> 0]
  /\ next_id = 1
  /\ last_put = [k \in Keys |-> 0]
  /\ put_result = "none"
  /\ resolved = {}
  /\ called = {}
  /\ cb_count = 0
  /\ attempts = <<>>
  /\ owed = {}
  /\ flushed = {}
  /\ late = {}
  /\ written = {}
  /\ drain = "none"
  /\ drain_snap = {}
  /\ drain_left = {}
  /\ sd_snap = {}

\* no call yet
NoCall == [op |-> "none"]

\* a persistence layer without parameters
SNone ==
  /\ total_extents = 0
  /\ brick_list = <<>>
  /\ brick_tree = {}
  /\ slice_ = [type |-> "none"]
  /\ hits = <<>>
  /\ brick_data = <<>>
  /\ master_links = <<>>
  /\ call = NoCall
  /\ last_set = NoCall

\* no parameter value has been made
VNone ==
  /\ shape = 0
  /\ constant_value = <<>>
  /\ sparse_value = <<>>
  /\ assigned = <<>>
  /\ pv_call = NoCall

\* no quality-control function has been called
QNone == qc = NoCall

\* no parameter function has been made
FNone == pf = NoCall

PNone == VNone /\ QNone /\ FNone

\* ------------------------------------------------------------- put_work
\* put_work(work_key, work_metrics, work): the queue after the call
put_work(q, k, wm, w) == Append(q, <<k, wm, w>>)

\* put_work without the _is_shutdown test
PutWork_NoShutdownTest(k, v) ==
  /\ put_left > 0
  /\ prep_queue' = put_work(prep_queue, k, Metrics(k), <<[id |-> next_id, val |-> v]>>)
  /\ next_id' = next_id + 1
  /\ put_left' = put_left - 1
  /\ last_put' = [last_put EXCEPT ![k] = next_id]
  /\ put_result' = "queued"
  /\ owed' = IF cb_count > 0 THEN owed \cup {next_id} ELSE owed
  /\ late' = IF cb_count > 0 THEN late \cup {next_id} ELSE late
  /\ UNCHANGED <<work_queue, pending_work, stashed_work, active_work, failures,
                 do_stop, is_shutdown, org_g, prov_g, rec_g, sd, sd_mode,
                 wstate, wwork, results, brick, resolved, called, cb_count,
                 attempts, fail_left, drain, drain_snap, drain_left, sd_snap, flushed, written, svars, pvars>>

\* a caller submits the one-element work list [e] for key k
PutWork(k, v) ==
  /\ put_left > 0
  /\ IF is_shutdown
       THEN /\ put_result' = "SystemError"
            /\ UNCHANGED <<prep_queue, next_id, put_left, last_put, owed, late>>
       ELSE /\ prep_queue' = put_work(prep_queue, k, Metrics(k), <<[id |-> next_id, val |-> v]>>)
            /\ next_id' = next_id + 1
            /\ put_left' = put_left - 1
            /\ last_put' = [last_put EXCEPT ![k] = next_id]
            /\ put_result' = "queued"
            /\ owed' = IF cb_count > 0 THEN owed \cup {next_id} ELSE owed
            /\ late' = IF cb_count > 0 THEN late \cup {next_id} ELSE late
  /\ UNCHANGED <<work_queue, pending_work, stashed_work, active_work, failures,
                 do_stop, is_shutdown, org_g, prov_g, rec_g, sd, sd_mode,
                 wstate, wwork, results, brick, resolved, called, cb_count,
                 attempts, fail_left, drain, drain_snap, drain_left, sd_snap, flushed, written, svars, pvars>>

\* a caller submits an empty work list for key k
PutEmptyWork(k) ==
  /\ put_left > 0
  /\ IF is_shutdown
       THEN /\ put_result' = "SystemError"
            /\ UNCHANGED <<prep_queue, put_left>>
       ELSE /\ prep_queue' = put_work(prep_queue, k, Metrics(k), <<>>)
            /\ put_left' = put_left - 1
            /\ put_result' = "queued"
  /\ UNCHANGED <<work_queue, pending_work, stashed_work, active_work, failures,
                 do_stop, is_shutdown, org_g, prov_g, rec_g, sd, sd_mode,
                 wstate, wwork, results, brick, next_id, last_put, resolved, called,
                 cb_count, attempts, fail_left, drain, drain_snap, drain_left,
                 sd_snap, owed, flushed, late, written, svars, pvars>>

\* ------------------------------------------------------------ organizer
\* the stash after the organizer stashed work w for the active key k
DoStash(k, wm, w) ==
  IF k \in DOMAIN stashed_work
    THEN Put(stashed_work, k, <<stashed_work[k][1], stashed_work[k][2] \o w>>)
    ELSE Put(stashed_work, k, <<wm, w>>)

\* _work_organizer that puts the key on the work queue whether or not it was
\* pending
Organize_AlwaysPublish ==
  /\ org_g = "run"
  /\ prep_queue # <<>>
  /\ LET wd == Head(prep_queue)
         k == wd[1]
         wm == wd[2]
         w == wd[3]
     IN  /\ prep_queue' = Tail(prep_queue)
         /\ IF k \notin DOMAIN stashed_work /\ Len(w) = 0
              THEN UNCHANGED <<stashed_work, pending_work, work_queue, flushed>>
              ELSE IF k \in DOMAIN active_work
                THEN /\ stashed_work' = DoStash(k, wm, w)
                     /\ UNCHANGED <<pending_work, work_queue, flushed>>
                ELSE LET sv == IF k \in DOMAIN stashed_work
                                 THEN stashed_work[k][2] \o w ELSE w
                         not_in_pend == k \notin DOMAIN pending_work
                         pend == IF not_in_pend THEN <<wm, <<>>>> ELSE pending_work[k]
                     IN  /\ stashed_work' = Drop(stashed_work, k)
                         /\ pending_work' = Put(pending_work, k, <<pend[1], pend[2] \o sv>>)
                         /\ work_queue' = Append(work_queue, k)
                         /\ flushed' = IF Len(w) = 0
                                         THEN flushed \cup {k}
                                         ELSE flushed
  /\ org_g' = IF do_stop /\ prep_queue' = <<>> THEN "done" ELSE "run"
  /\ UNCHANGED <<active_work, failures, do_stop, is_shutdown, prov_g, rec_g, sd,
                 sd_mode, wstate, wwork, results, brick, next_id, last_put,
                 put_result, resolved, called, cb_count, attempts,
                 put_left, fail_left, drain, drain_snap, drain_left, sd_snap, owed, late, written, svars, pvars>>

\* _work_organizer without the test that discards an empty work list
Organize_NoDiscard ==
  /\ org_g = "run"
  /\ prep_queue # <<>>
  /\ LET wd == Head(prep_queue)
         k == wd[1]
         wm == wd[2]
         w == wd[3]
     IN  /\ prep_queue' = Tail(prep_queue)
         /\ IF FALSE
              THEN UNCHANGED <<stashed_work, pending_work, work_queue, flushed>>
              ELSE IF k \in DOMAIN active_work
                THEN /\ stashed_work' = DoStash(k, wm, w)
                     /\ UNCHANGED <<pending_work, work_queue, flushed>>
                ELSE LET sv == IF k \in DOMAIN stashed_work
                                 THEN stashed_work[k][2] \o w ELSE w
                         not_in_pend == k \notin DOMAIN pending_work
                         pend == IF not_in_pend THEN <<wm, <<>>>> ELSE pending_work[k]
                     IN  /\ stashed_work' = Drop(stashed_work, k)
                         /\ pending_work' = Put(pending_work, k, <<pend[1], pend[2] \o sv>>)
                         /\ work_queue' = IF not_in_pend THEN Append(work_queue, k)
                                                         ELSE work_queue
                         /\ flushed' = IF Len(w) = 0
                                         THEN flushed \cup {k}
                                         ELSE flushed
  /\ org_g' = IF do_stop /\ prep_queue' = <<>> THEN "done" ELSE "run"
  /\ UNCHANGED <<active_work, failures, do_stop, is_shutdown, prov_g, rec_g, sd,
                 sd_mode, wstate, wwork, results, brick, next_id, last_put,
                 put_result, resolved, called, cb_count, attempts,
                 put_left, fail_left, drain, drain_snap, drain_left, sd_snap, owed, late, written, svars, pvars>>

\* one iteration of _work_organizer that got an item from prep_queue
Organize ==
  /\ org_g = "run"
  /\ prep_queue # <<>>
  /\ LET wd == Head(prep_queue)
         k == wd[1]
         wm == wd[2]
         w == wd[3]
     IN  /\ prep_queue' = Tail(prep_queue)
         /\ IF k \notin DOMAIN stashed_work /\ Len(w) = 0
              THEN UNCHANGED <<stashed_work, pending_work, work_queue, flushed>>
              ELSE IF k \in DOMAIN active_work
                THEN /\ stashed_work' = DoStash(k, wm, w)
                     /\ UNCHANGED <<pending_work, work_queue, flushed>>
                ELSE LET sv == IF k \in DOMAIN stashed_work
                                 THEN stashed_work[k][2] \o w ELSE w
                         not_in_pend == k \notin DOMAIN pending_work
                         pend == IF not_in_pend THEN <<wm, <<>>>> ELSE pending_work[k]
                     IN  /\ stashed_work' = Drop(stashed_work, k)
                         /\ pending_work' = Put(pending_work, k, <<pend[1], pend[2] \o sv>>)
                         /\ work_queue' = IF not_in_pend THEN Append(work_queue, k)
                                                         ELSE work_queue
                         /\ flushed' = IF Len(w) = 0
                                         THEN flushed \cup {k}
                                         ELSE flushed
  /\ org_g' = IF do_stop /\ prep_queue' = <<>> THEN "done" ELSE "run"
  /\ UNCHANGED <<active_work, failures, do_stop, is_shutdown, prov_g, rec_g, sd,
                 sd_mode, wstate, wwork, results, brick, next_id, last_put,
                 put_result, resolved, called, cb_count, attempts,
                 put_left, fail_left, drain, drain_snap, drain_left, sd_snap, owed, late, written, svars, pvars>>

\* one iteration of _work_organizer whose prep_queue.get timed out
OrganizerTick ==
  /\ org_g = "run"
  /\ prep_queue = <<>>
  /\ \E o \in Orders(DOMAIN stashed_work) :
       prep_queue' = [i \in 1..Len(o) |-> <<o[i], stashed_work[o[i]][1], <<>>>>]
  /\ org_g' = IF do_stop /\ prep_queue' = <<>> THEN "done" ELSE "run"
  /\ UNCHANGED <<work_queue, pending_work, stashed_work, active_work, failures,
                 do_stop, is_shutdown, prov_g, rec_g, sd, sd_mode, wstate, wwork,
                 results, brick, next_id, last_put, put_result, resolved, called,
                 cb_count, attempts, put_left, fail_left, drain, drain_snap, drain_left, sd_snap, owed, flushed, late, written, svars, pvars>>

\* ---------------------------------------------------------- provisioner
\* one iteration of _work_provisioner serving the request of worker w
Provision(w) ==
  /\ prov_g = "run"
  /\ wstate[w] = "requested"
  /\ work_queue # <<>>
  /\ LET work_key == Head(work_queue)
     IN  /\ work_queue' = Tail(work_queue)
         /\ flushed' = flushed \ {work_key}
         /\ IF work_key \in DOMAIN pending_work
              THEN LET wp == <<work_key, pending_work[work_key][1], pending_work[work_key][2]>>
                       pw == pack(wp)
                   IN  /\ pending_work' = Drop(pending_work, work_key)
                       /\ active_work' = Put(active_work, work_key, <<w, pw>>)
                       /\ wwork' = [wwork EXCEPT ![w] = pw]
                       /\ wstate' = [wstate EXCEPT ![w] = "working"]
                       /\ prov_g' = IF do_stop /\ work_queue' = <<>> THEN "done" ELSE "run"
              ELSE /\ prov_g' = "dead"
                   /\ UNCHANGED <<pending_work, active_work, wwork, wstate>>
  /\ UNCHANGED <<prep_queue, stashed_work, failures, do_stop, is_shutdown, org_g,
                 rec_g, sd, sd_mode, results, brick, next_id, last_put, put_result,
                 resolved, called, cb_count, attempts, put_left, fail_left,
                 drain, drain_snap, drain_left, sd_snap, owed, late, written, svars, pvars>>

\* _work_provisioner leaves its loop: stopping and nothing on the work queue
ProvisionerExit ==
  /\ prov_g = "run"
  /\ do_stop
  /\ work_queue = <<>>
  /\ prov_g' = "done"
  /\ UNCHANGED <<prep_queue, work_queue, pending_work, stashed_work, active_work,
                 failures, do_stop, is_shutdown, org_g, rec_g, sd, sd_mode,
                 wstate, wwork, results, brick, next_id, last_put, put_result,
                 resolved, called, cb_count, attempts, put_left, fail_left,
                 drain, drain_snap, drain_left, sd_snap, owed, flushed, late, written, svars, pvars>>


\* --------------------------------------------------------------- workers
WorkOf(w) == unpack(wwork[w])[3]

KeyOf(w) == unpack(wwork[w])[1]

send_result(w, msg) == [results EXCEPT ![w] = Append(results[w], msg)]

\* _run: every entry of the work list is written, then SUCCESS is sent and the
\* next get_work sends REQUEST_WORK
WorkerSuccess(w) ==
  /\ wstate[w] = "working"
  /\ brick' = [brick EXCEPT ![KeyOf(w)] = WorkOf(w)[Len(WorkOf(w))].id]
  /\ written' = written \cup Ids(WorkOf(w))
  /\ results' = send_result(w, <<SUCCESS, w, KeyOf(w), <<>>>>)
  /\ wstate' = [wstate EXCEPT ![w] = "requested"]
  /\ wwork' = [wwork EXCEPT ![w] = <<>>]
  /\ UNCHANGED <<prep_queue, work_queue, pending_work, stashed_work, active_work,
                 failures, do_stop, is_shutdown, org_g, prov_g, rec_g, sd, sd_mode,
                 next_id, last_put, put_result, resolved, called, cb_count,
                 attempts, put_left, fail_left, drain, drain_snap, drain_left, sd_snap, owed, flushed, late, svars, pvars>>

\* _run with the work list sent back as it was received, the written entries
\* not removed
WorkerFailure_WholeWork(w) ==
  /\ wstate[w] = "working"
  /\ fail_left > 0
  /\ \E n \in 0..(Len(WorkOf(w)) - 1) :
       /\ brick' = IF n = 0 THEN brick ELSE [brick EXCEPT ![KeyOf(w)] = WorkOf(w)[n].id]
       /\ written' = written \cup Ids(SubSeq(WorkOf(w), 1, n))
       /\ results' = send_result(w, <<FAILURE, w, KeyOf(w), WorkOf(w)>>)
  /\ wstate' = [wstate EXCEPT ![w] = "requested"]
  /\ wwork' = [wwork EXCEPT ![w] = <<>>]
  /\ fail_left' = fail_left - 1
  /\ UNCHANGED <<prep_queue, work_queue, pending_work, stashed_work, active_work,
                 failures, do_stop, is_shutdown, org_g, prov_g, rec_g, sd, sd_mode,
                 next_id, last_put, put_result, resolved, called, cb_count,
                 attempts, put_left, drain, drain_snap, drain_left, sd_snap, owed, flushed, late, svars, pvars>>

\* _run: the write of entry n+1 raises after n entries were written and removed
WorkerFailure(w) ==
  /\ wstate[w] = "working"
  /\ fail_left > 0
  /\ \E n \in 0..(Len(WorkOf(w)) - 1) :
       /\ brick' = IF n = 0 THEN brick ELSE [brick EXCEPT ![KeyOf(w)] = WorkOf(w)[n].id]
       /\ written' = written \cup Ids(SubSeq(WorkOf(w), 1, n))
       /\ results' = send_result(w, <<FAILURE, w, KeyOf(w),
                                      SubSeq(WorkOf(w), n + 1, Len(WorkOf(w)))>>)
  /\ wstate' = [wstate EXCEPT ![w] = "requested"]
  /\ wwork' = [wwork EXCEPT ![w] = <<>>]
  /\ fail_left' = fail_left - 1
  /\ UNCHANGED <<prep_queue, work_queue, pending_work, stashed_work, active_work,
                 failures, do_stop, is_shutdown, org_g, prov_g, rec_g, sd, sd_mode,
                 next_id, last_put, put_result, resolved, called, cb_count,
                 attempts, put_left, drain, drain_snap, drain_left, sd_snap, owed, flushed, late, svars, pvars>>

\* _run: unpack of the received message raises, FAILURE carries no key
WorkerDecodeFailure(w) ==
  /\ wstate[w] = "working"
  /\ fail_left > 0
  /\ results' = send_result(w, <<FAILURE, w, NullKey, <<>>>>)
  /\ wstate' = [wstate EXCEPT ![w] = "requested"]
  /\ wwork' = [wwork EXCEPT ![w] = <<>>]
  /\ fail_left' = fail_left - 1
  /\ UNCHANGED <<prep_queue, work_queue, pending_work, stashed_work, active_work,
                 failures, do_stop, is_shutdown, org_g, prov_g, rec_g, sd, sd_mode,
                 brick, next_id, last_put, put_result, resolved, called, cb_count,
                 attempts, put_left, drain, drain_snap, drain_left, sd_snap, owed, flushed, late, written, svars, pvars>>

\* ------------------------------------------------------------- receiver
\* the FAILURE branches once the active entry of work_key is known:
\* pop it, count the failure, then failure_callback or put_work(work_key, wm, work)
FailureBranch(work_key, work) ==
  LET pw == active_work[work_key][2]
      wm == unpack(pw)[2]
  IN  /\ active_work' = Drop(active_work, work_key)
      /\ failures' = add_failure(failures, pw)
      /\ attempts' = Bump(attempts, Ids(unpack(pw)[3]))
      /\ IF add_failure_raises(failures, pw)
           THEN /\ called' = called \cup Ids(unpack(pw)[3])
                /\ cb_count' = cb_count + 1
                /\ owed' = owed \cup (IF work_key \in DOMAIN stashed_work
                                        THEN Ids(stashed_work[work_key][2]) ELSE {})
                /\ UNCHANGED <<prep_queue, resolved>>
           ELSE /\ prep_queue' = put_work(prep_queue, work_key, wm, work)
                /\ resolved' = resolved \cup (Ids(unpack(pw)[3]) \ Ids(work))
                /\ UNCHANGED <<called, cb_count, owed>>

\* one iteration of _work_result_receiver that got a message of worker w
Receive(w) ==
  /\ rec_g = "run"
  /\ results[w] # <<>>
  /\ results' = [results EXCEPT ![w] = Tail(results[w])]
  /\ LET msg == Head(results[w])
         resp_type == msg[1]
         worker_guid == msg[2]
         work_key == msg[3]
         work == msg[4]
     IN  IF resp_type = SUCCESS
           THEN IF work_key \in DOMAIN active_work
                  THEN LET pw == active_work[work_key][2]
                       IN  /\ active_work' = Drop(active_work, work_key)
                           /\ failures' = clear_failure(failures, pw)
                           /\ resolved' = resolved \cup Ids(unpack(pw)[3])
                           /\ rec_g' = IF do_stop /\ DOMAIN active_work' = {} THEN "done" ELSE "run"
                           /\ UNCHANGED <<prep_queue, called, cb_count, attempts, owed>>
                  ELSE /\ rec_g' = "dead"
                       /\ UNCHANGED <<active_work, failures, resolved, attempts,
                                      prep_queue, called, cb_count, owed>>
           ELSE IF work_key = NullKey
             THEN LET owned == {k \in DOMAIN active_work : active_work[k][1] = worker_guid}
                  IN  IF owned = {}
                        THEN /\ rec_g' = IF do_stop /\ DOMAIN active_work = {} THEN "done" ELSE "run"
                             /\ UNCHANGED <<active_work, failures, resolved, attempts,
                                            prep_queue, called, cb_count, owed>>
                        ELSE \E k \in owned :
                               /\ FailureBranch(k, unpack(active_work[k][2])[3])
                               /\ rec_g' = IF do_stop /\ DOMAIN active_work' = {} THEN "done" ELSE "run"
             ELSE IF work_key \in DOMAIN active_work
                    THEN /\ FailureBranch(work_key, work)
                         /\ rec_g' = IF do_stop /\ DOMAIN active_work' = {} THEN "done" ELSE "run"
                    ELSE /\ rec_g' = "dead"
                         /\ UNCHANGED <<active_work, failures, resolved, attempts,
                                        prep_queue, called, cb_count, owed>>
  /\ UNCHANGED <<work_queue, pending_work, stashed_work, do_stop, is_shutdown,
                 org_g, prov_g, sd, sd_mode, wstate, wwork, brick, next_id,
                 last_put, put_result, put_left, fail_left, drain, drain_snap, drain_left, sd_snap, flushed, late, written, svars, pvars>>

\* _work_result_receiver leaves its loop: stopping and nothing active
ReceiverExit ==
  /\ rec_g = "run"
  /\ do_stop
  /\ DOMAIN active_work = {}
  /\ \A w \in Workers : results[w] = <<>>
  /\ rec_g' = "done"
  /\ UNCHANGED <<prep_queue, work_queue, pending_work, stashed_work, active_work,
                 failures, do_stop, is_shutdown, org_g, prov_g, sd, sd_mode,
                 wstate, wwork, results, brick, next_id, last_put, put_result,
                 resolved, called, cb_count, attempts, put_left, fail_left,
                 drain, drain_snap, drain_left, sd_snap, owed, flushed, late, written, svars, pvars>>


\* ------------------------------------------------------------- shutdown
Killed(g) == IF g = "run" THEN "killed" ELSE g

\* shutdown(force, timeout) up to the joins, called while no other call is
\* running: sets _do_stop; mode "graceful" is force=False with timeout=None,
\* mode "hard" is force=True or a finite timeout
ShutdownBegin(mode) ==
  /\ sd \notin {"joining", "stopping"}
  /\ ~is_shutdown
  /\ do_stop' = TRUE
  /\ sd' = "joining"
  /\ sd_mode' = mode
  /\ sd_snap' = 1..(next_id - 1)
  /\ UNCHANGED <<prep_queue, work_queue, pending_work, stashed_work, active_work,
                 failures, is_shutdown, org_g, prov_g, rec_g, wstate, wwork,
                 results, brick, next_id, last_put, put_result, resolved, called,
                 cb_count, attempts, put_left, fail_left, drain, drain_snap,
                 drain_left, owed, flushed, late, written, svars, pvars>>

\* shutdown: the joins are over (or were skipped); the three tasks are killed
ShutdownKill ==
  /\ sd = "joining"
  /\ sd_mode = "hard" \/ (org_g # "run" /\ prov_g # "run" /\ rec_g # "run")
  /\ org_g' = Killed(org_g)
  /\ prov_g' = Killed(prov_g)
  /\ rec_g' = Killed(rec_g)
  /\ sd' = "stopping"
  /\ UNCHANGED <<prep_queue, work_queue, pending_work, stashed_work, active_work,
                 failures, do_stop, is_shutdown, sd_mode, wstate, wwork,
                 results, brick, next_id, last_put, put_result, resolved, called,
                 cb_count, attempts, put_left, fail_left, drain, drain_snap, drain_left, sd_snap, owed, flushed, late, written, svars, pvars>>

\* shutdown: worker.stop() of a worker that is not writing
WorkerStop(w) ==
  /\ sd = "stopping"
  /\ wstate[w] = "requested"
  /\ wstate' = [wstate EXCEPT ![w] = "stopped"]
  /\ UNCHANGED <<prep_queue, work_queue, pending_work, stashed_work, active_work,
                 failures, do_stop, is_shutdown, org_g, prov_g, rec_g, sd, sd_mode,
                 wwork, results, brick, next_id, last_put, put_result,
                 resolved, called, cb_count, attempts, put_left, fail_left,
                 drain, drain_snap, drain_left, sd_snap, owed, flushed, late, written, svars, pvars>>

\* shutdown whose finally clause does not set _is_shutdown
ShutdownReturn_FlagNotSet ==
  /\ sd = "stopping"
  /\ \A w \in Workers : wstate[w] = "stopped"
  /\ sd' = "returned"
  /\ UNCHANGED <<prep_queue, work_queue, pending_work, stashed_work, active_work,
                 failures, do_stop, is_shutdown, org_g, prov_g, rec_g, sd_mode, wstate, wwork,
                 results, brick, next_id, last_put, put_result, resolved, called,
                 cb_count, attempts, put_left, fail_left, drain, drain_snap, drain_left, sd_snap, owed, flushed, late, written, svars, pvars>>

\* shutdown: all workers stopped; finally: _shutdown() and _is_shutdown = True
ShutdownReturn ==
  /\ sd = "stopping"
  /\ \A w \in Workers : wstate[w] = "stopped"
  /\ is_shutdown' = TRUE
  /\ sd' = "returned"
  /\ UNCHANGED <<prep_queue, work_queue, pending_work, stashed_work, active_work,
                 failures, do_stop, org_g, prov_g, rec_g, sd_mode, wstate, wwork,
                 results, brick, next_id, last_put, put_result, resolved, called,
                 cb_count, attempts, put_left, fail_left, drain, drain_snap, drain_left, sd_snap, owed, flushed, late, written, svars, pvars>>

\* shutdown: a join, kill() or stop() the call is blocked in raises in the
\* caller; the exception is passed on after finally: _shutdown() and
\* _is_shutdown = True
ShutdownRaise ==
  /\ sd \in {"joining", "stopping"}
  /\ is_shutdown' = TRUE
  /\ sd' = "raised"
  /\ UNCHANGED <<prep_queue, work_queue, pending_work, stashed_work, active_work,
                 failures, do_stop, org_g, prov_g, rec_g, sd_mode, wstate, wwork,
                 results, brick, next_id, last_put, put_result, resolved, called,
                 cb_count, attempts, put_left, fail_left, drain, drain_snap, drain_left, sd_snap, owed, flushed, late, written, svars, pvars>>

\* shutdown called when _is_shutdown is set: returns at once
ShutdownAgain ==
  /\ sd \in {"returned", "raised", "again"}
  /\ is_shutdown
  /\ sd' = "again"
  /\ UNCHANGED <<prep_queue, work_queue, pending_work, stashed_work, active_work,
                 failures, do_stop, is_shutdown, org_g, prov_g, rec_g, sd_mode, wstate, wwork,
                 results, brick, next_id, last_put, put_result, resolved, called,
                 cb_count, attempts, put_left, fail_left, drain, drain_snap, drain_left, sd_snap, owed, flushed, late, written, svars, pvars>>

\* ------------------------------------------------------ the dirty future
\* get_dirty_values_async_result: spawns dirty_check
RequestDrain ==
  /\ drain = "none"
  /\ drain' = "waiting"
  /\ drain_snap' = 1..(next_id - 1)
  /\ UNCHANGED <<prep_queue, work_queue, pending_work, stashed_work, active_work,
                 failures, do_stop, is_shutdown, org_g, prov_g, rec_g, sd, sd_mode,
                 wstate, wwork, results, brick, next_id, last_put, put_result,
                 resolved, called, cb_count, attempts, put_left, fail_left,
                 drain_left, sd_snap, owed, flushed, late, written, svars, pvars>>

\* dirty_check finds is_dirty() false: res.set(True)
DirtyCheck ==
  /\ drain = "waiting"
  /\ ~is_dirty
  /\ drain' = "resolved"
  /\ drain_left' = drain_snap \ (resolved \cup called)
  /\ UNCHANGED <<prep_queue, work_queue, pending_work, stashed_work, active_work,
                 failures, do_stop, is_shutdown, org_g, prov_g, rec_g, sd, sd_mode,
                 wstate, wwork, results, brick, next_id, last_put, put_result,
                 resolved, called, cb_count, attempts, put_left, fail_left,
                 drain_snap, sd_snap, owed, flushed, late, written, svars, pvars>>

\* ------------------------------------------------------ persistence layer
Min(a, b) == IF a <= b THEN a ELSE b

SetMin(S) == CHOOSE x \in S : \A y \in S : x <= y

SetMax(S) == CHOOSE x \in S : \A y \in S : x >= y

\* calculate_brick_size with sdom None: bD = [6], whatever the total domain
calculate_brick_size == BrickDomain

\* calculate_extents(origin, bD, name) for rank 1: the rtree is faked to rank 2
calculate_extents(origin, bD, tD) ==
  [rtree_extents |-> <<origin, 0, origin + bD - 1, 0>>,
   brick_extents |-> <<origin, origin + bD - 1>>,
   brick_active_size |-> Min(tD, origin + bD - 1 + 1) - origin]

\* _brick_exists: do_write, false when a brick with these extents is listed
brick_exists(bl, brick_extents) ==
  \A g \in DOMAIN bl : bl[g].brick_extents # brick_extents

\* what a dataset created without a fillvalue reads: the HDF5 default, zero
h5_default == 0

\* create_dataset(brick_guid, bD, dtype, chunks=cD): no fillvalue is passed
create_dataset(bD) == [c \in 0..(bD - 1) |-> h5_default]

\* create_guid(): an identifier no brick file has had
create_guid(data) == Cardinality(DOMAIN data) + 1

\* write_brick(origin, bD, ...): a new brick gets a fresh guid and a file with an
\* empty dataset, is listed and is inserted into the rtree with id
\* brick_count - 1, and is linked in the master file with its origin and size;
\* st is [list, tree, data, links]
write_brick(st, origin, bD, tD) ==
  LET ce == calculate_extents(origin, bD, tD)
  IN  IF ~brick_exists(st.list, ce.brick_extents)
        THEN st
        ELSE LET brick_guid == create_guid(st.data)
                 bl == st.list @@ (brick_guid :>
                         [brick_extents |-> ce.brick_extents,
                          origin |-> origin,
                          bD |-> bD,
                          brick_active_size |-> ce.brick_active_size])
             IN  [list |-> bl,
                  tree |-> st.tree \cup {[id |-> Cardinality(DOMAIN bl) - 1,
                                          rtree_extents |-> ce.rtree_extents,
                                          object |-> brick_guid]},
                  data |-> st.data @@ (brick_guid :> create_dataset(bD)),
                  links |-> st.links @@ (brick_guid :>
                              [brick_origin |-> origin, brick_size |-> bD])]

\* expand_domain: range(tD)[::bD], the brick vertices, in order
Vertices(tD, bD) == [i \in 1..((tD + bD - 1) \div bD) |-> (i - 1) * bD]

RECURSIVE write_bricks(_, _, _, _)
write_bricks(st, vertices, bD, tD) ==
  IF vertices = <<>>
    THEN st
    ELSE write_bricks(write_brick(st, Head(vertices), bD, tD), Tail(vertices), bD, tD)

\* expand_domain(parameter_context) with dom.total_extents = (new_domain,):
\* the new extent is recorded whatever it is, then the bricks of all vertices
\* are written
expand_domain(new_domain) ==
  /\ LET bD == calculate_brick_size
         st == write_bricks([list |-> brick_list, tree |-> brick_tree,
                             data |-> brick_data, links |-> master_links],
                            Vertices(new_domain, bD), bD, new_domain)
     IN  /\ total_extents' = new_domain
         /\ brick_list' = st.list
         /\ brick_tree' = st.tree
         /\ brick_data' = st.data
         /\ master_links' = st.links
  /\ call' = [op |-> "expand", status |-> "ok"]
  /\ last_set' = NoCall
  /\ UNCHANGED <<slice_, hits, sets_left, dvars, pvars>>

\* expand_domain called with a larger time axis; the explored runs end with
\* the call of _bricks_from_slice
ExpandDomain(new_domain) ==
  /\ slice_.type = "none"
  /\ new_domain > total_extents
  /\ expand_domain(new_domain)

\* rtree bounds, interleaved: [xmin, ymin, xmax, ymax]
Bounds(tree) ==
  <<SetMin({e.rtree_extents[1] : e \in tree}), SetMin({e.rtree_extents[2] : e \in tree}),
    SetMax({e.rtree_extents[3] : e \in tree}), SetMax({e.rtree_extents[4] : e \in tree})>>

\* rtree intersection of a stored box with the query box (start + end)
Intersects(box, q) ==
  /\ box[1] <= q[3] /\ q[1] <= box[3]
  /\ box[2] <= q[4] /\ q[2] <= box[4]

\* an optional value: <<>> is None
Opt(S) == {<<>>} \cup {<<x>> : x \in S}

\* the start and the end of the query box on the first axis
SliceStart(sx, bnds) ==
  IF sx.type = "slice" THEN (IF sx.start # <<>> THEN sx.start[1] ELSE bnds[1])
  ELSE IF sx.type = "list" THEN SetMin(Range(sx.idx))
  ELSE sx.i

SliceEnd(sx, bnds) ==
  IF sx.type = "slice" THEN (IF sx.stop # <<>> THEN sx.stop[1] ELSE bnds[3])
  ELSE IF sx.type = "list" THEN SetMax(Range(sx.idx))
  ELSE sx.i

\* _bricks_from_slice([sx]): rank 1 is padded with (0,); the rtree entries that
\* intersect (start, 0, end, 0), as the set of (h.id, h.object)
bricks_from_slice(sx, tree) ==
  LET bnds == Bounds(tree)
      q == <<SliceStart(sx, bnds), 0, SliceEnd(sx, bnds), 0>>
  IN  {<<e.id, e.object>> : e \in {h \in tree : Intersects(h.rtree_extents, q)}}

\* the selections of one axis of size tD: an integer, an index list, or a
\* non-empty range with optional start, stop and step
Selections(tD) ==
  {[type |-> "int", i |-> i] : i \in 0..(tD - 1)}
  \cup {[type |-> "list", idx |-> l] :
          l \in UNION {[1..n -> 0..(tD - 1)] : n \in 1..MaxList}}
  \cup {sl \in [type : {"slice"}, start : Opt(0..(tD - 1)), stop : Opt(1..tD),
                step : Opt(1..MaxStep)] :
          sl.start # <<>> /\ sl.stop # <<>> => sl.start[1] < sl.stop[1]}

\* PersistedStorage._bricks_from_slice for a selection of the time axis; the
\* rtree yields the hits in an order of its own
BricksFromSlice ==
  /\ slice_.type = "none"
  /\ total_extents > 0
  /\ \E sx \in Selections(total_extents) :
       /\ slice_' = sx
       /\ \E o \in Orders(bricks_from_slice(sx, brick_tree)) : hits' = o
  /\ UNCHANGED <<total_extents, brick_list, brick_tree, brick_data, master_links,
                 call, last_set, sets_left, dvars, pvars>>

\* ------------------------------------------------- PersistedStorage values
\* what __getitem__ puts into the result before the bricks are read
ret_fill == -1

\* the fill value of the parameter type; the layer and the storage never read it
fill_value == -9999

Max(a, b) == IF a >= b THEN a ELSE b

\* len(range(start, stop, step)) for a positive step
RangeLen(start, stop, step) ==
  IF stop <= start THEN 0 ELSE (stop - start + step - 1) \div step

StepOf(sx) == IF sx.step # <<>> THEN sx.step[1] ELSE 1

\* _get_array_shape_from_slice((sx,)): a range is counted with
\* slice.indices(maxes[0]), maxes[0] being the upper rtree bound plus one
get_array_shape_from_slice(sx, tree) ==
  LET maxes == Bounds(tree)[3] + 1
  IN  IF sx.type = "int" THEN 1
      ELSE IF sx.type = "list" THEN Len(sx.idx)
      ELSE RangeLen(IF sx.start # <<>> THEN Min(sx.start[1], maxes) ELSE 0,
                    IF sx.stop # <<>> THEN Min(sx.stop[1], maxes) ELSE maxes,
                    StepOf(sx))

\* the outcome of _calc_slices: the error raised ("" for none), the cells of the
\* dataset that brick_slice selects, value_slice as [lo, hi), the new
\* val_origin, and for a range the start, stop and step of brick_slice
CalcResult(err, cells, lo, hi, vo, start, stop, step) ==
  [err |-> err, cells |-> cells, lo |-> lo, hi |-> hi, vo |-> vo,
   start |-> start, stop |-> stop, step |-> step]

\* _calc_slices((sx,), brick_guid, value, val_origin) for the brick b of
\* brick_list, val_origin = [vo] and a value of shape (vs,): brick_size is the
\* fourth entry of the brick's record, its active size
calc_slices(sx, b, vo, vs) ==
  LET bo == b.origin
      bs == b.brick_active_size
      bn == bo + bs
  IN  IF sx.type = "int"
        THEN IF bo <= sx.i /\ sx.i < bn
               THEN CalcResult("", <<sx.i - bo>>, vo, vo + 1, vo + 1, 0, 0, <<>>)
               ELSE CalcResult("ValueError", <<>>, vo, vo, vo, 0, 0, <<>>)
      ELSE IF sx.type = "list"
        THEN LET inb == SelectSeq(sx.idx, LAMBDA x : bo <= x /\ x < bn)
                 lb == [j \in 1..Len(inb) |-> inb[j] - bo]
             IN  IF Len(lb) = 0
                   THEN CalcResult("ValueError", <<>>, vo, vo, vo, 0, 0, <<>>)
                   ELSE CalcResult("", lb, vo, vo + Len(lb), Len(lb) + vo, 0, 0, <<>>)
      ELSE LET start_err == sx.start # <<>> /\ ~(bo <= sx.start[1] /\ sx.start[1] < bn)
                              /\ ~(bo > sx.start[1])
               start == IF sx.start = <<>> THEN 0
                        ELSE IF bo <= sx.start[1] /\ sx.start[1] < bn THEN sx.start[1] - bo
                        ELSE 0
               stop_err == sx.stop # <<>> /\ ~(bo <= sx.stop[1] /\ sx.stop[1] < bn)
                             /\ ~(sx.stop[1] > bn)
               stop == IF sx.stop = <<>> THEN bs
                       ELSE IF bo <= sx.stop[1] /\ sx.stop[1] < bn THEN sx.stop[1] - bo
                       ELSE bs
               nbsl == RangeLen(Min(start, stop), stop, StepOf(sx))
               vstp == IF vo + nbsl > vs THEN vs ELSE vo + nbsl
           IN  IF start_err \/ stop_err
                 THEN CalcResult("ValueError", <<>>, vo, vo, vo, 0, 0, sx.step)
                 ELSE CalcResult("", [j \in 1..nbsl |-> start + (j - 1) * StepOf(sx)],
                                 vo, vstp, vo + nbsl, start, stop, sx.step)

\* value[lo:hi] of a one-dimensional array: the bounds are clipped
ArraySlice(arr, lo, hi) ==
  [j \in 1..Max(0, Min(hi, Len(arr)) - Min(lo, Len(arr))) |-> arr[Min(lo, Len(arr)) + j]]

\* what is stored by target[...] = data for a target of tlen cells: data of the
\* same length elementwise, data of length one to every cell, else an error
Broadcast(data, tlen) ==
  IF Len(data) = tlen THEN [err |-> "", v |-> data]
  ELSE IF Len(data) = 1 THEN [err |-> "", v |-> [j \in 1..tlen |-> data[1]]]
  ELSE [err |-> "ShapeError", v |-> <<>>]

\* the loop of __getitem__ over the bricks in the order of the hits: the cells
\* of each brick are read and stored into ret_arr[value_slice]
RECURSIVE get_bricks(_, _, _, _, _, _, _)
get_bricks(sx, bl, data, order, vo, ret_arr, done) ==
  IF order = <<>>
    THEN [status |-> "ok", ret |-> ret_arr, slices |-> done]
    ELSE LET g == Head(order)[2]
             cs == calc_slices(sx, bl[g], vo, Len(ret_arr))
             rec == [brick |-> g, cs |-> cs]
             lo == Min(cs.lo, Len(ret_arr))
             hi == Min(cs.hi, Len(ret_arr))
             bc == Broadcast([j \in 1..Len(cs.cells) |-> data[g][cs.cells[j]]],
                             Max(0, hi - lo))
         IN  IF cs.err # ""
               THEN [status |-> cs.err, ret |-> <<>>, slices |-> Append(done, rec)]
             ELSE IF bc.err # ""
               THEN [status |-> bc.err, ret |-> <<>>, slices |-> Append(done, rec)]
             ELSE get_bricks(sx, bl, data, Tail(order), cs.vo,
                             [j \in 1..Len(ret_arr) |->
                                IF lo < j /\ j <= hi THEN bc.v[j - lo] ELSE ret_arr[j]],
                             Append(done, rec))

\* __getitem__(slice_) for a selection of one axis. inplace: slice_ was no list
\* or tuple and was wrapped into a list, which _bricks_from_slice extends by
\* (0,) in place, so that _calc_slices meets a second axis that the origin of a
\* brick does not have
getitem(sx, inplace, bl, tree, data, order) ==
  IF inplace /\ order # <<>>
    THEN [status |-> "IndexError", ret |-> <<>>, slices |-> <<>>]
    ELSE get_bricks(sx, bl, data, order, 0,
                    [j \in 1..get_array_shape_from_slice(sx, tree) |-> ret_fill], <<>>)

\* the loop of __setitem__ over the bricks in the order of the hits:
\* val[value_slice] is written to the cells of each brick; the bricks written
\* before an error stay written
RECURSIVE set_bricks(_, _, _, _, _, _)
set_bricks(sx, bl, data, order, vo, val) ==
  IF order = <<>>
    THEN [status |-> "ok", data |-> data]
    ELSE LET g == Head(order)[2]
             cs == calc_slices(sx, bl[g], vo, Len(val))
             bc == Broadcast(ArraySlice(val, cs.lo, cs.hi), Len(cs.cells))
             at(c) == CHOOSE j \in 1..Len(cs.cells) : cs.cells[j] = c
         IN  IF cs.err # "" THEN [status |-> cs.err, data |-> data]
             ELSE IF bc.err # "" THEN [status |-> bc.err, data |-> data]
             ELSE set_bricks(sx, bl,
                             [data EXCEPT ![g] =
                                [c \in DOMAIN data[g] |->
                                   IF c \in Range(cs.cells) THEN bc.v[at(c)] ELSE data[g][c]]],
                             Tail(order), cs.vo, val)

\* __setitem__(slice_, value) for a selection of one axis
setitem(sx, inplace, bl, data, order, val) ==
  IF inplace /\ order # <<>>
    THEN [status |-> "IndexError", data |-> data]
    ELSE set_bricks(sx, bl, data, order, 0, val)

\* the indices of an axis of size tD that a selection names, in its order
Selected(sx, tD) ==
  IF sx.type = "int" THEN <<sx.i>>
  ELSE IF sx.type = "list" THEN sx.idx
  ELSE LET start == IF sx.start # <<>> THEN sx.start[1] ELSE 0
           stop == IF sx.stop # <<>> THEN sx.stop[1] ELSE tD
       IN  [j \in 1..RangeLen(start, stop, StepOf(sx)) |-> start + (j - 1) * StepOf(sx)]

\* the selections given to the storage: index lists are increasing, as the
\* dataset accepts no others, and a step is absent or larger than one
StorageSelections(tD) ==
  {sx \in Selections(tD) :
     /\ sx.type = "list" => \A i, j \in 1..Len(sx.idx) : i < j => sx.idx[i] < sx.idx[j]
     /\ sx.type = "slice" => sx.step # <<1>>}

\* how a selection reaches the storage: in a tuple (FALSE), or an integer on
\* its own (TRUE)
Containers(sx) == IF sx.type = "int" THEN BOOLEAN ELSE {FALSE}

\* storage[slice_] = value with a value of the shape of the selection that
\* holds, for each selected index, the index itself; the selection is passed
\* in a tuple or on its own
SetItem ==
  /\ call.op # "get"
  /\ sets_left > 0
  /\ total_extents > 0
  /\ \E sx \in StorageSelections(total_extents) :
       \E inplace \in Containers(sx), order \in Orders(bricks_from_slice(sx, brick_tree)) :
         LET val == Selected(sx, total_extents)
             r == setitem(sx, inplace, brick_list, brick_data, order, val)
         IN  /\ brick_data' = r.data
             /\ last_set' = [op |-> "set", sel |-> sx, inplace |-> inplace,
                             val |-> val, status |-> r.status]
             /\ call' = [op |-> "set", status |-> r.status]
  /\ sets_left' = sets_left - 1
  /\ UNCHANGED <<total_extents, brick_list, brick_tree, slice_, hits, master_links,
                 dvars, pvars>>

\* storage[slice_]; the explored runs end with it
GetItem ==
  /\ call.op # "get"
  /\ total_extents > 0
  /\ \E sx \in StorageSelections(total_extents) :
       \E inplace \in Containers(sx), order \in Orders(bricks_from_slice(sx, brick_tree)) :
         LET r == getitem(sx, inplace, brick_list, brick_tree, brick_data, order)
         IN  call' = [op |-> "get", sel |-> sx, inplace |-> inplace,
                      status |-> r.status, ret |-> r.ret, slices |-> r.slices]
  /\ UNCHANGED <<total_extents, brick_list, brick_tree, slice_, hits, brick_data,
                 master_links, last_set, sets_left, dvars, pvars>>

\* expand_domain called with a larger time axis between the calls of the storage
GrowDomain(new_domain) ==
  /\ call.op # "get"
  /\ new_domain > total_extents
  /\ expand_domain(new_domain)

\* ------------------------------------------- the layer and selections of rank n
\* the calls of the layer; the explored runs end with a call of the storage
LayerCalls == {"none", "init", "expand", "open"}

\* init_parameter(parameter_context) with total_extents (n,): the parameter gets
\* a new rtree and an empty brick list, then expand_domain takes its else
\* branch and writes the bricks of all vertices; brick files and links stay
InitParameter(n) ==
  /\ call.op \in LayerCalls
  /\ Cardinality(DOMAIN brick_data) + Len(Vertices(n, calculate_brick_size)) <= MaxFiles
  /\ LET bD == calculate_brick_size
         st == write_bricks([list |-> <<>>, tree |-> {},
                             data |-> brick_data, links |-> master_links],
                            Vertices(n, bD), bD, n)
     IN  /\ total_extents' = n
         /\ brick_list' = st.list
         /\ brick_tree' = st.tree
         /\ brick_data' = st.data
         /\ master_links' = st.links
  /\ call' = [op |-> "init", status |-> "ok"]
  /\ last_set' = NoCall
  /\ UNCHANGED <<slice_, hits, sets_left, dvars, pvars>>

\* expand_domain of an initialised parameter with any new extent
ExpandDomainTo(new_domain) ==
  /\ call.op \in LayerCalls
  /\ total_extents > 0
  /\ expand_domain(new_domain)

\* PersistenceLayer(root, guid) on a root whose master file links bricks:
\* brick_list, brick_tree_dict and parameter_domain_dict start empty and
\* _inspect_master fills master_groups and master_links only
Reopen ==
  /\ call.op \in LayerCalls
  /\ DOMAIN master_links # {}
  /\ total_extents' = 0
  /\ brick_list' = <<>>
  /\ brick_tree' = {}
  /\ call' = [op |-> "open", status |-> "ok"]
  /\ last_set' = NoCall
  /\ UNCHANGED <<slice_, hits, brick_data, master_links, sets_left, dvars, pvars>>

\* slice(None, None, None)
FullSlice == [type |-> "slice", start |-> <<>>, stop |-> <<>>, step |-> <<>>]

\* selections with more axes than the parameter has
RankSelections(tD) ==
  LET first == {[type |-> "int", i |-> 0], [type |-> "int", i |-> tD - 1], FullSlice}
      more == {[type |-> "int", i |-> 0], [type |-> "int", i |-> 1], FullSlice}
  IN  {<<a, b>> : a \in first, b \in more}
        \cup {<<a, b, c>> : a \in first, b \in more, c \in more}

\* _bricks_from_slice for a selection of two or more axes: nothing is padded,
\* the rank is compared with the dimension of the rtree, which is 2
bricks_from_tuple(sel, tree) ==
  IF Len(sel) # 2
    THEN [err |-> "ValueError: incorrect rank", hits |-> {}]
    ELSE LET bnds == Bounds(tree)
             ybnds == <<bnds[2], 0, bnds[4]>>
             q == <<SliceStart(sel[1], bnds), SliceStart(sel[2], ybnds),
                    SliceEnd(sel[1], bnds), SliceEnd(sel[2], ybnds)>>
         IN  [err |-> "",
              hits |-> {<<e.id, e.object>> :
                          e \in {h \in tree : Intersects(h.rtree_extents, q)}}]

\* __getitem__ for a tuple of two or more axes: the shape is taken first (a
\* range on a third axis finds no entry in maxes), then the bricks; with no
\* brick hit the pre-filled array is returned, else _calc_slices handles the
\* first axis and fails on the second, which the origin of a brick lacks;
\* order is the order of the hits
getitem_tuple(sel, bl, tree, order) ==
  LET bq == bricks_from_tuple(sel, tree)
      n0 == get_array_shape_from_slice(sel[1], tree)
      n1 == IF sel[2].type = "int" THEN 1
            ELSE RangeLen(0, Bounds(tree)[4] + 1, 1)
  IN  IF \E i \in 3..Len(sel) : sel[i].type = "slice"
        THEN [status |-> "IndexError", ret |-> <<>>]
      ELSE IF bq.err # "" THEN [status |-> bq.err, ret |-> <<>>]
      ELSE IF bq.hits = {}
        THEN [status |-> "ok",
              ret |-> [r \in 1..n0 |-> [c \in 1..n1 |-> ret_fill]]]
      ELSE LET cs == calc_slices(sel[1], bl[order[1][2]], 0, n0)
           IN  [status |-> IF cs.err # "" THEN cs.err ELSE "IndexError", ret |-> <<>>]

\* __setitem__ for a tuple of two or more axes: the bricks are taken first;
\* with no brick hit nothing is written and the call returns
setitem_tuple(sel, bl, tree, order, val) ==
  LET bq == bricks_from_tuple(sel, tree)
  IN  IF bq.err # "" THEN bq.err
      ELSE IF bq.hits = {} THEN "ok"
      ELSE LET cs == calc_slices(sel[1], bl[order[1][2]], 0, Len(val))
           IN  IF cs.err # "" THEN cs.err ELSE "IndexError"

\* storage[sel] for a selection of rank two or three
GetItemTuple ==
  /\ call.op \in LayerCalls
  /\ total_extents > 0
  /\ \E sel \in RankSelections(total_extents) :
       \E order \in Orders(bricks_from_tuple(sel, brick_tree).hits) :
         LET r == getitem_tuple(sel, brick_list, brick_tree, order)
         IN  call' = [op |-> "get_tuple", sel |-> sel, status |-> r.status, ret |-> r.ret]
  /\ UNCHANGED <<total_extents, brick_list, brick_tree, slice_, hits, brick_data,
                 master_links, last_set, sets_left, dvars, pvars>>

\* storage[sel] = value for a selection of rank two or three; no brick is
\* written in any of its outcomes
SetItemTuple ==
  /\ call.op \in LayerCalls
  /\ total_extents > 0
  /\ \E sel \in RankSelections(total_extents) :
       \E order \in Orders(bricks_from_tuple(sel, brick_tree).hits) :
         call' = [op |-> "set_tuple", sel |-> sel,
                  status |-> setitem_tuple(sel, brick_list, brick_tree, order,
                                           Selected(sel[1], total_extents))]
  /\ UNCHANGED <<total_extents, brick_list, brick_tree, slice_, hits, brick_data,
                 master_links, last_set, sets_left, dvars, pvars>>

\* _fix_slice(slice_, rank): a longer selection is cut to the rank, a shorter
\* one is padded with full slices
fix_slice(sel, rank) ==
  IF Len(sel) > rank THEN SubSeq(sel, 1, rank)
  ELSE sel \o [n \in 1..(rank - Len(sel)) |-> FullSlice]

\* NumericValue.__getitem__(slice_) of a value of rank 1: the selection is
\* fixed and then applied to the array of the value, whose content is not
\* modelled
NumericValueGet ==
  /\ call.op \in LayerCalls
  /\ total_extents > 0
  /\ \E sel \in RankSelections(total_extents) :
       call' = [op |-> "value_get", sel |-> sel, status |-> "ok",
                applied |-> fix_slice(sel, 1)]
  /\ UNCHANGED <<total_extents, brick_list, brick_tree, slice_, hits, brick_data,
                 master_links, last_set, sets_left, dvars, pvars>>

\* ------------------------------------------------- parameter values in memory
Digits == <<"0", "1", "2", "3", "4", "5", "6", "7", "8", "9">>

\* str(n) of a natural number: its decimal digits
RECURSIVE str_nat(_)
str_nat(n) ==
  IF n < 10 THEN <<Digits[n + 1]>>
  ELSE str_nat(n \div 10) \o <<Digits[(n % 10) + 1]>>

\* str(value): an int gives its sign and digits, a str is returned as it is
str(value) ==
  IF value.t = "int"
    THEN (IF value.v < 0 THEN <<"-">> ELSE <<>>)
           \o str_nat(IF value.v < 0 THEN -value.v ELSE value.v)
    ELSE value.s

startswith(s, prefix) ==
  Len(s) >= Len(prefix) /\ SubSeq(s, 1, Len(prefix)) = prefix

\* the value of a digit, -1 for other characters
DigitOf(ch) ==
  IF \E d \in 1..10 : Digits[d] = ch
    THEN (CHOOSE d \in 1..10 : Digits[d] = ch) - 1
    ELSE -1

RECURSIVE parse_nat(_)
parse_nat(s) ==
  IF Len(s) = 0 THEN 0
  ELSE 10 * parse_nat(SubSeq(s, 1, Len(s) - 1)) + DigitOf(s[Len(s)])

\* is the text an integer literal: an optional sign and a non-empty run of
\* digits
IsLiteral(s) ==
  LET t == IF startswith(s, <<"-">>) THEN Tail(s) ELSE s
  IN  Len(t) > 0 /\ \A i \in 1..Len(t) : DigitOf(t[i]) >= 0

\* the number an integer literal denotes
parse_literal(s) ==
  IF startswith(s, <<"-">>) THEN -parse_nat(Tail(s)) ELSE parse_nat(s)

\* parameter_type.is_valid_value(value) of a constant type over int32: the text
\* is a number, with or without the prefix c*
is_valid_value(value) ==
  IF startswith(value, <<"c", "*">>)
    THEN IsLiteral(SubSeq(value, 3, Len(value)))
    ELSE IsLiteral(value)

\* ConstantValue.__setitem__(slice_, value): _value after the call; the
\* selection is not used
constant_setitem_NoValidTest(cur, value) ==
  LET v == str(value)
  IN  IF ~startswith(v, <<"c", "*">>) THEN <<"c", "*">> \o v ELSE v

constant_setitem(cur, value) ==
  LET v == str(value)
  IN  IF is_valid_value(v)
        THEN (IF ~startswith(v, <<"c", "*">>) THEN <<"c", "*">> \o v ELSE v)
        ELSE cur

\* the selection as a tuple, before _fix_slice gives it the rank: a value that
\* is not iterable is wrapped, a list becomes the tuple of its members
as_tuple(arg) ==
  IF arg.py = "tuple" THEN arg.items
  ELSE IF arg.py = "list" THEN [n \in 1..Len(arg.items) |-> [type |-> "int", i |-> arg.items[n]]]
  ELSE <<arg.sx>>

\* np.ones(shape)[slice_] for a tuple of one selection: a scalar for an
\* integer, an array otherwise; IndexError for an index out of bounds
ones(tD, sx) ==
  IF sx.type = "int"
    THEN (IF sx.i < tD /\ sx.i >= -tD
            THEN [err |-> "", scalar |-> TRUE, data |-> <<1>>]
            ELSE [err |-> "IndexError", scalar |-> TRUE, data |-> <<>>])
  ELSE IF sx.type = "list"
    THEN (IF \A n \in 1..Len(sx.idx) : sx.idx[n] < tD /\ sx.idx[n] >= -tD
            THEN [err |-> "", scalar |-> FALSE, data |-> [n \in 1..Len(sx.idx) |-> 1]]
            ELSE [err |-> "IndexError", scalar |-> FALSE, data |-> <<>>])
  ELSE [err |-> "", scalar |-> FALSE, data |-> [n \in 1..Len(Selected(sx, tD)) |-> 1]]

\* ne.evaluate(expr) with the local array c, then astype(int32): the products
\* are whole numbers within int32, which the conversion keeps
evaluate(expr, c) ==
  IF expr = <<>> THEN [err |-> "TypeError", scalar |-> c.scalar, data |-> <<>>]
  ELSE IF c.err # "" THEN c
  ELSE IF ~(startswith(expr, <<"c", "*">>) /\ IsLiteral(SubSeq(expr, 3, Len(expr))))
    THEN [err |-> "SyntaxError", scalar |-> c.scalar, data |-> <<>>]
  ELSE [err |-> "", scalar |-> c.scalar,
        data |-> [n \in 1..Len(c.data) |->
                    c.data[n] * parse_literal(SubSeq(expr, 3, Len(expr)))]]

\* ConstantValue.__getitem__(slice_)
constant_getitem(cur, tD, arg) ==
  evaluate(cur, ones(tD, fix_slice(as_tuple(arg), 1)[1]))

\* the values assigned to a constant, with the number each of them denotes
\* (<<>> for a value that denotes none)
ConstantInputs ==
  {[value |-> [t |-> "int", v |-> n], number |-> <<n>>] : n \in {0, 7, 200, -5}}
  \cup {[value |-> [t |-> "str", s |-> <<"c", "*", "7">>], number |-> <<7>>],
        [value |-> [t |-> "str", s |-> <<"1", "2">>], number |-> <<12>>],
        [value |-> [t |-> "str", s |-> <<"x">>], number |-> <<>>],
        [value |-> [t |-> "str", s |-> <<"c", "*">>], number |-> <<>>]}

\* the selections a value is called with: an index, an index list or a range
\* on its own, and tuples of one or two selections
ValueArgs(tD) ==
  LET lists == {<<0>>, <<2, tD - 3>>, <<tD - 1, 0>>}
      ranges == {FullSlice,
                 [type |-> "slice", start |-> <<2>>, stop |-> <<tD - 1>>, step |-> <<>>],
                 [type |-> "slice", start |-> <<tD - 2>>, stop |-> <<>>, step |-> <<3>>]}
  IN  {[py |-> "one", sx |-> [type |-> "int", i |-> i]] : i \in 0..(tD - 1)}
      \cup {[py |-> "one", sx |-> sx] : sx \in ranges}
      \cup {[py |-> "list", items |-> l] : l \in lists}
      \cup {[py |-> "tuple", items |-> <<[type |-> "list", idx |-> l]>>] : l \in lists}
      \cup {[py |-> "tuple", items |-> <<sx>>] : sx \in ranges}
      \cup {[py |-> "tuple", items |-> <<[type |-> "int", i |-> 2], [type |-> "int", i |-> tD - 1]>>]}

\* cval[arg] = value
ConstantSet ==
  /\ shape > 0
  /\ \E arg \in ValueArgs(shape), in \in ConstantInputs :
       /\ constant_value' = constant_setitem(constant_value, in.value)
       /\ assigned' = IF in.number # <<>> THEN in.number ELSE assigned
       /\ pv_call' = [op |-> "cset", arg |-> arg, value |-> in.value,
                      accepted |-> in.number # <<>>]
  /\ UNCHANGED <<shape, sparse_value, qc, pf, dvars, svars>>

\* cval[arg]
ConstantGet ==
  /\ shape > 0
  /\ \E arg \in ValueArgs(shape) :
       pv_call' = [op |-> "cget", arg |-> arg,
                   result |-> constant_getitem(constant_value, shape, arg)]
  /\ UNCHANGED <<shape, constant_value, sparse_value, assigned, qc, pf, dvars, svars>>

\* a sparse-constant value: each assigned constant is kept as a span that
\* starts at the length the domain had when it was assigned
sparse_setitem_FromZero(spans, tD, v) == Append(spans, [start |-> 0, value |-> v])

sparse_setitem(spans, tD, v) == Append(spans, [start |-> tD, value |-> v])

\* scval[arg]: the selection of the array of the constants over the domain;
\* the constant that holds at index i is that of the last span starting at or
\* before i
sparse_getitem(spans, tD, arg) ==
  LET sx == fix_slice(as_tuple(arg), 1)[1]
      idx == Selected(sx, tD)
      at(i) == SetMax({n \in 1..Len(spans) : spans[n].start <= i})
  IN  [err |-> "", scalar |-> sx.type = "int",
       data |-> [n \in 1..Len(idx) |-> spans[at(idx[n])].value]]

\* the constants assigned in the scenario and the lengths the domain takes
SparseConstants == {10, 20, 30}

\* scval[:] = v, once per length of the domain
SparseSet ==
  /\ Len(sparse_value) < Cardinality(SparseConstants)
  /\ sparse_value # <<>> => sparse_value[Len(sparse_value)].start < shape
  /\ \E v \in SparseConstants :
       /\ sparse_value' = sparse_setitem(sparse_value, shape, v)
       /\ assigned' = Append(assigned, <<shape, v>>)
       /\ pv_call' = [op |-> "sset", value |-> v]
  /\ UNCHANGED <<shape, constant_value, qc, pf, dvars, svars>>

\* dom.shape = (n,) with a longer domain
SparseExpand ==
  /\ sparse_value # <<>>
  /\ \E n \in SparseConstants :
       /\ n > shape
       /\ shape' = n
  /\ pv_call' = [op |-> "expand"]
  /\ UNCHANGED <<sparse_value, constant_value, assigned, qc, pf, dvars, svars>>

\* scval[arg]
SparseGet ==
  /\ sparse_value # <<>>
  /\ \E arg \in (IF shape = 0 THEN {[py |-> "one", sx |-> FullSlice]} ELSE ValueArgs(shape)) :
       pv_call' = [op |-> "sget", arg |-> arg,
                   result |-> sparse_getitem(sparse_value, shape, arg)]
  /\ UNCHANGED <<shape, sparse_value, constant_value, assigned, qc, pf, dvars, svars>>

\* -------------------------------------------------- quality-control functions
\* dat[a:b] of a Python sequence, 0 <= a
PySlice(dat, a, b) == SubSeq(dat, a + 1, Min(b, Len(dat)))

RECURSIVE SeqSum(_)
SeqSum(x) == IF x = <<>> THEN 0 ELSE Head(x) + SeqSum(Tail(x))

\* dataqc_globalrangetest(dat, datlim): the comparison with the lower limit is
\* a boolean array, that with the upper limit is cast to int8, and & joins them
dataqc_globalrangetest_StrictUpper(dat, datlim) ==
  IF Len(datlim) < 2 THEN [err |-> "ValueError", out |-> <<>>]
  ELSE LET lo == SetMin(Range(datlim))
           hi == SetMax(Range(datlim))
           upper == [i \in 1..Len(dat) |-> IF dat[i] < hi THEN 1 ELSE 0]
       IN  [err |-> "",
            out |-> [i \in 1..Len(dat) |-> IF lo <= dat[i] THEN upper[i] ELSE 0]]

dataqc_globalrangetest(dat, datlim) ==
  IF Len(datlim) < 2 THEN [err |-> "ValueError", out |-> <<>>]
  ELSE LET lo == SetMin(Range(datlim))
           hi == SetMax(Range(datlim))
           upper == [i \in 1..Len(dat) |-> IF dat[i] <= hi THEN 1 ELSE 0]
       IN  [err |-> "",
            out |-> [i \in 1..Len(dat) |-> IF lo <= dat[i] THEN upper[i] ELSE 0]]

\* (N * R) > abs(dat[ii] - tmpdat.mean()) with R = max(tmpdat.max() -
\* tmpdat.min(), acc); acc is given in tenths and both sides are scaled by
\* ten times the number of peers
spike_good(x, tmpdat, acc, N) ==
  LET R == SetMax(Range(tmpdat)) - SetMin(Range(tmpdat))
      R10 == Max(10 * R, acc)
      n == Len(tmpdat)
      d == x * n - SeqSum(tmpdat)
  IN  N * R10 * n > 10 * (IF d < 0 THEN -d ELSE d)

\* dataqc_spiketest whose symmetric window keeps the tested value
dataqc_spiketest_WholeWindow(dat, acc, N, L) ==
  LET La == IF L < 0 THEN -L ELSE L
      Lo == IF La % 2 = 0 THEN La + 1 ELSE La
      Lw == IF Lo < 3 THEN 5 ELSE Lo
      ll == Len(dat)
      L2 == (Lw - 1) \div 2
      tmpdat(ii) ==
        IF ii < L2 THEN PySlice(dat, 0, ii) \o PySlice(dat, ii + 1, Lw)
        ELSE IF ii < ll - L2 THEN PySlice(dat, ii - L2, ii + 1 + L2)
        ELSE PySlice(dat, 0, ii) \o PySlice(dat, ii, Lw)
  IN  [i \in 1..ll |->
         IF ll >= Lw /\ spike_good(dat[i], tmpdat(i - 1), acc, N) THEN 1 ELSE 0]

\* dataqc_spiketest(dat, acc, N, L) for a whole number L; ii counts from 0
dataqc_spiketest(dat, acc, N, L) ==
  LET La == IF L < 0 THEN -L ELSE L
      Lo == IF La % 2 = 0 THEN La + 1 ELSE La
      Lw == IF Lo < 3 THEN 5 ELSE Lo
      ll == Len(dat)
      L2 == (Lw - 1) \div 2
      tmpdat(ii) ==
        IF ii < L2 THEN PySlice(dat, 0, ii) \o PySlice(dat, ii + 1, Lw)
        ELSE IF ii < ll - L2 THEN PySlice(dat, ii - L2, ii) \o PySlice(dat, ii + 1, ii + 1 + L2)
        ELSE PySlice(dat, 0, ii) \o PySlice(dat, ii, Lw)
  IN  [i \in 1..ll |->
         IF ll >= Lw /\ spike_good(dat[i], tmpdat(i - 1), acc, N) THEN 1 ELSE 0]

\* dataqc_stuckvaluetest whose comparison with the resolution is not strict
dataqc_stuckvaluetest_Inclusive(x, reso, num) ==
  LET n == IF num < 0 THEN -num ELSE num
      ll == Len(x)
      tmp(ii) == LET sl == PySlice(x, ii, ii + n)
                 IN  [j \in 1..Len(sl) |->
                        IF x[ii + 1] - sl[j] < 0 THEN sl[j] - x[ii + 1] ELSE x[ii + 1] - sl[j]]
      zeroed == UNION {(ii + 1)..Min(ii + n, ll) :
                         ii \in {jj \in 0..(ll - n) : \A j \in 1..Len(tmp(jj)) : tmp(jj)[j] <= reso}}
  IN  [i \in 1..ll |-> IF ll < n \/ i \in zeroed THEN 0 ELSE 1]

\* dataqc_stuckvaluetest(x, reso, num) for a whole number num other than 0:
\* the output starts as zeros, is filled with ones when len(x) >= num, and each
\* slice [ii, ii + num) whose values are all within reso of x[ii] is zeroed
dataqc_stuckvaluetest(x, reso, num) ==
  LET n == IF num < 0 THEN -num ELSE num
      ll == Len(x)
      tmp(ii) == LET sl == PySlice(x, ii, ii + n)
                 IN  [j \in 1..Len(sl) |->
                        IF x[ii + 1] - sl[j] < 0 THEN sl[j] - x[ii + 1] ELSE x[ii + 1] - sl[j]]
      zeroed == UNION {(ii + 1)..Min(ii + n, ll) :
                         ii \in {jj \in 0..(ll - n) : \A j \in 1..Len(tmp(jj)) : tmp(jj)[j] < reso}}
  IN  [i \in 1..ll |-> IF ll < n \/ i \in zeroed THEN 0 ELSE 1]

\* the arguments the functions are called with: the series and limits of the
\* tests, and all short series; the stuck-value series are in thousandths
QCInputs ==
  {[op |-> "input", fn |-> "globalrangetest", dat |-> dat, datlim |-> lim] :
     dat \in {<<9, 10, 16, 17, 18, 19, 20, 25>>}
              \cup UNION {[1..n -> {9, 10, 15, 20, 25}] : n \in 1..2},
     lim \in {<<10, 20>>, <<20, 10>>, <<10, 10>>, <<15, 10, 20>>, <<10>>}}
  \cup {[op |-> "input", fn |-> "spiketest", dat |-> dat, acc |-> 1, N |-> N, L |-> L] :
          dat \in {<<-1, 3, 40, -1, 1, -6, -6, 1>>}
                   \cup UNION {[1..n -> {-6, 1, 3, 40}] : n \in 2..MaxDat},
          N \in {1, 5}, L \in {3, 4, 5}}
  \cup {[op |-> "input", fn |-> "stuckvaluetest", x |-> x, reso |-> reso, num |-> num] :
          x \in {<<4830, 1400, 3330, 3330, 3330, 3330, 4090, 2970, 2850, 3670>>}
                 \cup UNION {[1..n -> {0, 1, 3}] : n \in 0..MaxDat},
          reso \in {0, 1, 2}, num \in {1, 2, 3, 4, MaxDat + 1}}

\* dataqc_globalrangetest is called
GlobalRangeTest ==
  /\ qc.op = "input"
  /\ qc.fn = "globalrangetest"
  /\ qc' = [op |-> "done", fn |-> qc.fn, dat |-> qc.dat, datlim |-> qc.datlim,
            result |-> dataqc_globalrangetest(qc.dat, qc.datlim)]
  /\ UNCHANGED <<shape, constant_value, sparse_value, assigned, pv_call, pf, dvars, svars>>

\* dataqc_spiketest is called
SpikeTest ==
  /\ qc.op = "input"
  /\ qc.fn = "spiketest"
  /\ qc' = [op |-> "done", fn |-> qc.fn, dat |-> qc.dat, acc |-> qc.acc, N |-> qc.N,
            L |-> qc.L, out |-> dataqc_spiketest(qc.dat, qc.acc, qc.N, qc.L)]
  /\ UNCHANGED <<shape, constant_value, sparse_value, assigned, pv_call, pf, dvars, svars>>

\* dataqc_stuckvaluetest is called
StuckValueTest ==
  /\ qc.op = "input"
  /\ qc.fn = "stuckvaluetest"
  /\ qc' = [op |-> "done", fn |-> qc.fn, x |-> qc.x, reso |-> qc.reso, num |-> qc.num,
            out |-> dataqc_stuckvaluetest(qc.x, qc.reso, qc.num)]
  /\ UNCHANGED <<shape, constant_value, sparse_value, assigned, pv_call, pf, dvars, svars>>

\* ---------------------------------------------------------- parameter functions
\* An expression is a record: PythonFunction has name, owner, func_name,
\* arg_list and param_map, NumexprFunction has name, expression, arg_list and
\* param_map. A param_map of None is the empty mapping. An argument value is a
\* nested expression [t |-> "fn"], a number [t |-> "num"] or the name of a
\* parameter [t |-> "str"].
PythonFunction(name, owner, func_name, arg_list, param_map) ==
  [name |-> name, owner |-> owner, func_name |-> func_name,
   arg_list |-> arg_list, param_map |-> param_map]

NumexprFunction(name, expression, arg_list, param_map) ==
  [name |-> name, expression |-> expression, arg_list |-> arg_list, param_map |-> param_map]

\* _apply_mapping(): each name of arg_list with the value param_map gives it,
\* or with the name itself
apply_mapping(fn) ==
  [a \in Range(fn.arg_list) |->
     IF a \in DOMAIN fn.param_map THEN fn.param_map[a] ELSE [t |-> "str", s |-> a]]

\* _get_map_name(a, n)
get_map_name(a, n) == IF a = "" THEN n ELSE a \o " :|: " \o n

\* get_module_dependencies() that does not descend into the arguments
get_module_dependencies_TopOnly(fn) ==
  IF "expression" \in DOMAIN fn THEN {"numexpr"}
  ELSE IF "owner" \in DOMAIN fn THEN {fn.owner} ELSE {}

\* get_module_dependencies(): the set deps before it is made a tuple
RECURSIVE get_module_dependencies(_)
get_module_dependencies(fn) ==
  LET own == IF "expression" \in DOMAIN fn THEN {"numexpr"}
             ELSE IF "owner" \in DOMAIN fn THEN {fn.owner} ELSE {}
      arg_map == apply_mapping(fn)
  IN  own \cup UNION {get_module_dependencies(arg_map[k].fn) :
                        k \in {j \in Range(fn.arg_list) : arg_map[j].t = "fn"}}

\* get_function_map(parent_arg_name = parent) with the placeholder callback,
\* which raises KeyError for every name: the dict {n: ret} as [n, ret], ret
\* as the sequence of its values arg_0, arg_1, ...
RECURSIVE get_function_map(_, _)
get_function_map(fn, parent) ==
  LET arg_map == apply_mapping(fn)
      arg(i) ==
        LET k == fn.arg_list[i]
            a == arg_map[k]
        IN  IF a.t = "fn" THEN [t |-> "dict", d |-> get_function_map(a.fn, k)]
            ELSE IF a.t = "num"
              THEN [t |-> "str", s |-> "<" \o get_map_name(k, ToString(a.n)) \o ">"]
            ELSE [t |-> "str", s |-> "!" \o get_map_name(k, a.s) \o "!"]
  IN  [n |-> "[" \o get_map_name(parent, fn.name) \o "]",
       ret |-> [i \in 1..Len(fn.arg_list) |-> arg(i)]]

\* AbstractFunction.__eq__(other) for an other that is an expression
abstract_eq(self, other) == get_function_map(self, "") = get_function_map(other, "")

\* PythonFunction.__eq__(other): other.owner is read whatever other is
python_eq(self, other) ==
  IF abstract_eq(self, other)
    THEN (IF "owner" \notin DOMAIN other THEN "AttributeError"
          ELSE IF self.owner = other.owner /\ self.func_name = other.func_name THEN "True"
          ELSE "False")
    ELSE "False"

\* NumexprFunction.__eq__(other): other.expression is read whatever other is
numexpr_eq(self, other) ==
  IF abstract_eq(self, other)
    THEN (IF "expression" \notin DOMAIN other THEN "AttributeError"
          ELSE IF self.expression = other.expression THEN "True"
          ELSE "False")
    ELSE "False"

\* self == other
function_eq(self, other) ==
  IF "expression" \in DOMAIN self THEN numexpr_eq(self, other) ELSE python_eq(self, other)

\* expressions without nested expressions
Leaves ==
  {PythonFunction(n, o, "g", <<"x">>, <<>>) : n \in {"f", "e"}, o \in {"m1", "m2"}}
  \cup {PythonFunction("f", "m1", "h", <<"x">>, <<>>)}
  \cup {NumexprFunction(n, e, <<"x">>, <<>>) : n \in {"f", "e"}, e \in {"x+1", "x*2"}}

\* the values an argument is mapped to
ArgValues(S) ==
  {[t |-> "fn", fn |-> f] : f \in S} \cup {[t |-> "num", n |-> 1], [t |-> "str", s |-> "p"]}

\* expressions of at most d levels of nested expressions
RECURSIVE Functions(_)
Functions(d) ==
  IF d = 0 THEN Leaves
  ELSE LET S == Functions(d - 1)
       IN  S \cup {PythonFunction("f", o, "g", <<"x", "y">>, "x" :> v) :
                     o \in {"m1", "m3"}, v \in ArgValues(S)}
             \cup {NumexprFunction("f", "x+y", <<"x", "y">>, ("x" :> v) @@ ("y" :> w)) :
                     v \in ArgValues(S), w \in ArgValues({PythonFunction("e", "m2", "g", <<"x">>, <<>>)})}

\* get_module_dependencies() is called; the tuple lists the set in any order
ModuleDependencies ==
  /\ pf.op = "input"
  /\ pf.fn = "deps"
  /\ \E order \in Orders(get_module_dependencies(pf.self)) :
       pf' = [op |-> "done", fn |-> pf.fn, self |-> pf.self, deps |-> order]
  /\ UNCHANGED <<shape, constant_value, sparse_value, assigned, pv_call, qc, dvars, svars>>

\* self == other is evaluated
FunctionEq ==
  /\ pf.op = "input"
  /\ pf.fn = "eq"
  /\ pf' = [op |-> "done", fn |-> pf.fn, self |-> pf.self, other |-> pf.other,
            result |-> function_eq(pf.self, pf.other)]
  /\ UNCHANGED <<shape, constant_value, sparse_value, assigned, pv_call, qc, dvars, svars>>

\* ----------------------------------------------------------------- Specs
\* the dispatcher while it runs: submissions, the three tasks and the workers
Init == DInit /\ SNone /\ PNone /\ put_left = MaxSubmit /\ fail_left = MaxFail /\ sets_left = 0

NextRun ==
  \/ \E k \in Keys, v \in Vals : PutWork(k, v)
  \/ Organize
  \/ OrganizerTick
  \/ \E w \in Workers : Provision(w)
  \/ \E w \in Workers : WorkerSuccess(w)
  \/ \E w \in Workers : WorkerFailure(w)
  \/ \E w \in Workers : WorkerDecodeFailure(w)
  \/ \E w \in Workers : Receive(w)

Next == NextRun

Spec == Init /\ [][Next]_vars

\* the running dispatcher observed through the dirty future
InitDrain == DInit /\ SNone /\ PNone /\ put_left = MaxSubmitDrain /\ fail_left = MaxFailDrain /\ sets_left = 0

NextDrain ==
  \/ NextRun
  \/ RequestDrain
  \/ DirtyCheck

SpecDrain == InitDrain /\ [][NextDrain]_vars

\* the dispatcher with shutdown
InitShutdown == DInit /\ SNone /\ PNone /\ put_left = MaxSubmitShutdown /\ fail_left = MaxFailShutdown /\ sets_left = 0

NextShutdown ==
  \/ NextRun
  \/ ProvisionerExit
  \/ ReceiverExit
  \/ \E mode \in {"graceful", "hard"} : ShutdownBegin(mode)
  \/ ShutdownKill
  \/ \E w \in Workers : WorkerStop(w)
  \/ ShutdownReturn

SpecShutdown == InitShutdown /\ [][NextShutdown]_vars

\* the dispatcher with shutdown calls that return, raise and are repeated
InitShutdownTwice == DInit /\ SNone /\ PNone /\ put_left = MaxSubmitTwice /\ fail_left = MaxFailTwice /\ sets_left = 0

NextShutdownTwice ==
  \/ NextShutdown
  \/ ShutdownRaise
  \/ ShutdownAgain

SpecShutdownTwice == InitShutdownTwice /\ [][NextShutdownTwice]_vars

\* the persistence layer of a parameter whose time axis grows
InitBricks == DInit /\ SNone /\ PNone /\ put_left = 0 /\ fail_left = 0 /\ sets_left = 0

NextBricks ==
  \/ \E n \in 1..MaxExtent : ExpandDomain(n)
  \/ BricksFromSlice

SpecBricks == InitBricks /\ [][NextBricks]_vars

\* the extents the time axis takes while values are set and got: a brick
\* partly used, two bricks, and the two bricks of extent ten
Extents == {4, 7, 10}

\* the storage of a parameter whose time axis grows: values are set and got
InitValues == DInit /\ SNone /\ PNone /\ put_left = 0 /\ fail_left = 0 /\ sets_left = MaxSet

NextValues ==
  \/ \E n \in Extents : GrowDomain(n)
  \/ SetItem
  \/ GetItem

SpecValues == InitValues /\ [][NextValues]_vars

\* the layer of a parameter that is initialised, expanded to any extent and
\* re-opened, and selections of a rank the parameter does not have
InitLayer == DInit /\ SNone /\ PNone /\ put_left = 0 /\ fail_left = 0 /\ sets_left = 0

NextLayer ==
  \/ \E n \in Extents : InitParameter(n)
  \/ \E n \in Extents : ExpandDomainTo(n)
  \/ Reopen
  \/ GetItemTuple
  \/ SetItemTuple
  \/ NumericValueGet

SpecLayer == InitLayer /\ [][NextLayer]_vars

\* the dispatcher whose callers also submit empty work lists
InitOrganizer == DInit /\ SNone /\ PNone /\ put_left = MaxSubmitOrganizer /\ fail_left = MaxFailOrganizer /\ sets_left = 0

NextOrganizer ==
  \/ NextRun
  \/ \E k \in Keys : PutEmptyWork(k)

SpecOrganizer == InitOrganizer /\ [][NextOrganizer]_vars

\* init_parameter of a parameter the layer does not have yet
InitParameterOnce(n) ==
  /\ total_extents = 0
  /\ DOMAIN master_links = {}
  /\ InitParameter(n)

\* a parameter that is initialised once and then expanded to any extents
InitGrid == DInit /\ SNone /\ PNone /\ put_left = 0 /\ fail_left = 0 /\ sets_left = 0

NextGrid ==
  \/ \E n \in 1..MaxExtent : InitParameterOnce(n)
  \/ \E n \in 1..MaxExtent : ExpandDomainTo(n)

SpecGrid == InitGrid /\ [][NextGrid]_vars

\* a constant value over a domain of NumRec records
InitConstant ==
  /\ DInit /\ SNone /\ QNone /\ FNone
  /\ put_left = 0 /\ fail_left = 0 /\ sets_left = 0
  /\ shape = NumRec
  /\ constant_value = <<>>
  /\ sparse_value = <<>>
  /\ assigned = <<>>
  /\ pv_call = NoCall

NextConstant ==
  \/ ConstantSet
  \/ ConstantGet

SpecConstant == InitConstant /\ [][NextConstant]_vars

\* a sparse-constant value over a domain of initial length 0
InitSparse == DInit /\ SNone /\ PNone /\ put_left = 0 /\ fail_left = 0 /\ sets_left = 0

NextSparse ==
  \/ SparseSet
  \/ SparseExpand
  \/ SparseGet

SpecSparse == InitSparse /\ [][NextSparse]_vars

\* the quality-control functions applied to the arguments drawn at the start
InitQC ==
  /\ DInit /\ SNone /\ VNone /\ FNone
  /\ put_left = 0 /\ fail_left = 0 /\ sets_left = 0
  /\ qc \in QCInputs

NextQC ==
  \/ GlobalRangeTest
  \/ SpikeTest
  \/ StuckValueTest

SpecQC == InitQC /\ [][NextQC]_vars

\* parameter functions: the dependencies of one expression, or the comparison
\* of two
InitFunctions ==
  /\ DInit /\ SNone /\ VNone /\ QNone
  /\ put_left = 0 /\ fail_left = 0 /\ sets_left = 0
  /\ pf \in {[op |-> "input", fn |-> "deps", self |-> f] : f \in Functions(MaxDepth)}
          \cup {[op |-> "input", fn |-> "eq", self |-> f, other |-> g] :
                  f \in Functions(MaxDepth - 1), g \in Functions(MaxDepth - 1)}

NextFunctions ==
  \/ ModuleDependencies
  \/ FunctionEq

SpecFunctions == InitFunctions /\ [][NextFunctions]_vars

\* a dispatcher with num_workers = 1 (the default) whose tasks and worker are
\* scheduled fairly: each of them loops and polls for ever
SingleWorker == {"w1"}

InitLive == DInit /\ SNone /\ PNone /\ put_left = MaxSubmitLive /\ fail_left = MaxFailLive /\ sets_left = 0

NextLive ==
  \/ \E k \in Keys, v \in Vals : PutWork(k, v)
  \/ Organize
  \/ OrganizerTick
  \/ \E w \in SingleWorker : Provision(w)
  \/ \E w \in SingleWorker : WorkerSuccess(w)
  \/ \E w \in SingleWorker : WorkerFailure(w)
  \/ \E w \in SingleWorker : WorkerDecodeFailure(w)
  \/ \E w \in SingleWorker : Receive(w)

Fairness ==
  /\ WF_vars(Organize)
  /\ WF_vars(OrganizerTick)
  /\ \A w \in SingleWorker : WF_vars(Provision(w))
  /\ \A w \in SingleWorker : WF_vars(WorkerSuccess(w))
  /\ \A w \in SingleWorker : WF_vars(Receive(w))

SpecLive == InitLive /\ [][NextLive]_vars /\ Fairness


\* a dispatcher with two failures and three submissions
InitLoss == DInit /\ SNone /\ PNone /\ put_left = MaxSubmitLoss /\ fail_left = MaxFailLoss /\ sets_left = 0

SpecLoss == InitLoss /\ [][NextRun]_vars

\* a dispatcher with one worker and failures enough for a failure_callback
\* and one more failure
InitRetries == DInit /\ SNone /\ PNone /\ put_left = MaxSubmitRetries /\ fail_left = MaxFailRetries /\ sets_left = 0

SpecRetries == InitRetries /\ [][NextLive]_vars

\* ---------------------------------------------------------------- claims
\* where the elements of the accepted work lists are
QueueIds == UNION {Ids(prep_queue[i][3]) : i \in 1..Len(prep_queue)}

PendingIds == UNION {Ids(pending_work[k][2]) : k \in DOMAIN pending_work}

StashedIds == UNION {Ids(stashed_work[k][2]) : k \in DOMAIN stashed_work}

ActiveIds == UNION {Ids(unpack(active_work[k][2])[3]) : k \in DOMAIN active_work}

\* the workers that hold work for key k
Holders(k) == {w \in Workers : wstate[w] = "working" /\ KeyOf(w) = k}

\* nothing is queued, pending, stashed, active, held by a worker or in flight
AllQuiet ==
  /\ prep_queue = <<>>
  /\ ~is_dirty
  /\ \A w \in Workers : wstate[w] # "working" /\ results[w] = <<>>

\* C1: each brick key has at most one active work item, so that no two
\* workers hold work for the same brick key at the same time.
C1_OneWorkerPerKey == \A k \in Keys : Cardinality(Holders(k)) <= 1

\* C2: writes to one brick key are written in submission order: once all
\* accepted work has been written (nothing outstanding, nothing given up) each
\* brick holds the element that was submitted last for its key.
C2_SubmissionOrder ==
  (AllQuiet /\ called = {}) => \A k \in Keys : brick[k] = last_put[k]

\* C3: when the dirty future resolves, every work item submitted before it was
\* requested has been reported SUCCESS or passed to failure_callback.
C3_DrainComplete == drain = "resolved" => drain_left = {}

\* C4: failure_callback is invoked for a work item on its
\* (WORK_FAILURE_RETRIES + 1)-th failed attempt, not earlier and not later.
C4_CallbackOnFifthFailure ==
  \A i \in called : attempts[i] = WORK_FAILURE_RETRIES + 1

\* C5: the runs contain finitely many submissions and worker failures; once
\* there are no more of them is_dirty() becomes false and stays false.
C5_EventuallyClean == <>[](~is_dirty)

\* C6: when the receiver processes SUCCESS(key) no failure count remains in
\* _failures for the packed work that succeeded.
C6_SuccessClearsFailures ==
  [][\A w \in Workers :
       ( /\ rec_g = "run"
         /\ results[w] # <<>>
         /\ results'[w] = Tail(results[w])
         /\ Head(results[w])[1] = SUCCESS
         /\ Head(results[w])[3] \in DOMAIN active_work )
       => pack(Bytes(active_work[Head(results[w])[3]][2])) \notin DOMAIN failures']_vars

\* C7: when shutdown(force=False, timeout=None) has stopped the workers, all
\* work submitted before the call is resolved (SUCCESS or failure_callback) and
\* none of it is left in the inbound queue, pending, stashed or active.
C7_GracefulShutdownDrains ==
  (sd_mode = "graceful" /\ sd \in {"stopping", "returned"}) =>
     /\ sd_snap \subseteq (resolved \cup called)
     /\ sd_snap \cap (QueueIds \cup PendingIds \cup StashedIds \cup ActiveIds) = {}
     /\ work_queue = <<>>

\* C8: once shutdown has completed, a put_work call is rejected with
\* SystemError: no step taken after that accepts a submission or changes the
\* inbound queue, pending, stashed or active.
C8_PutAfterShutdownRejected ==
  [][is_shutdown =>
       /\ UNCHANGED <<prep_queue, pending_work, stashed_work, active_work, next_id>>
       /\ put_result' \in {put_result, "SystemError"}]_vars

C8_Witness == is_shutdown /\ put_result = "SystemError"

\* C9: once failure_callback has been invoked, the work that was stashed for
\* its key and all work submitted afterwards is eventually written by a worker
\* (and acknowledged) or passed to failure_callback.
C9_OperatesAfterCallback == cb_count > 0 ~> owed \subseteq (resolved \cup called)

\* the cells of an axis of size tD that a selection selects
Cells(sx, tD) ==
  IF sx.type = "slice"
    THEN LET start == IF sx.start # <<>> THEN sx.start[1] ELSE 0
             stop == IF sx.stop # <<>> THEN sx.stop[1] ELSE tD
             step == IF sx.step # <<>> THEN sx.step[1] ELSE 1
         IN  {c \in 0..(tD - 1) : c >= start /\ c < stop /\ (c - start) % step = 0}
  ELSE IF sx.type = "list" THEN Range(sx.idx)
  ELSE {sx.i}

\* the bricks that contain at least one of the cells
BricksOf(cells) ==
  {g \in DOMAIN brick_list :
     \E c \in cells : brick_list[g].brick_extents[1] <= c /\ c <= brick_list[g].brick_extents[2]}

\* C10: the bricks _bricks_from_slice returns for a selection are exactly the
\* bricks that contain a selected cell, each of them once.
C10_ExactBricks ==
  slice_.type # "none" =>
    /\ {hits[i][2] : i \in 1..Len(hits)} = BricksOf(Cells(slice_, total_extents))
    /\ \A i, j \in 1..Len(hits) : hits[i] = hits[j] => i = j

\* C11: after set(S, B) with B of the shape of S, a following get(S) returns B
\* elementwise: both calls succeed and the result is B.
C11_RoundTrip ==
  (call.op = "get" /\ last_set.op = "set" /\ call.sel = last_set.sel) =>
    /\ last_set.status = "ok"
    /\ call.status = "ok"
    /\ call.ret = last_set.val

\* the parameter of scenario S6: created with total extent 10, hence the bricks
\* at 0 and at 6 with ten cells in use
S6Layer ==
  /\ total_extents = 10
  /\ DOMAIN brick_list = 1..2
  /\ brick_list[1].origin = 0 /\ brick_list[1].brick_active_size = 6
  /\ brick_list[2].origin = 6 /\ brick_list[2].brick_active_size = 4

\* the range [a, b) passed in a tuple
RangeSel(a, b) == [type |-> "slice", start |-> <<a>>, stop |-> <<b>>, step |-> <<>>]

\* C12: scenario S6: on the parameter of total extent 10 with bricks at 0 and 6,
\* writing the range [0, 10) with the values 0..9 succeeds, and reading [4, 8)
\* then returns [4, 5, 6, 7].
C12_ScenarioS6 ==
  (S6Layer /\ last_set.op = "set" /\ last_set.sel = RangeSel(0, 10)
     /\ ~last_set.inplace /\ last_set.val = <<0, 1, 2, 3, 4, 5, 6, 7, 8, 9>>) =>
    /\ last_set.status = "ok"
    /\ (call.op = "get" /\ call.sel = RangeSel(4, 8) /\ ~call.inplace) =>
         (call.status = "ok" /\ call.ret = <<4, 5, 6, 7>>)

\* C13: before any write, get(S) succeeds and every element of its result is
\* the fill value of the parameter.
C13_FillBeforeWrite ==
  (call.op = "get" /\ sets_left = MaxSet) =>
    /\ call.status = "ok"
    /\ \A j \in 1..Len(call.ret) : call.ret[j] = fill_value

\* C14: the array get(S) returns has length 1 for an integer, the length of the
\* list for an index list, and for a range the number of indices the range
\* selects within the total extent, an open end counting up to the total extent.
C14_ResultShape ==
  (call.op = "get" /\ call.status = "ok") =>
    Len(call.ret) = Len(Selected(call.sel, total_extents))

\* what storage[(i,)] yields on a layer: the status and the array of __getitem__
GetIndex(i, bl, tree, data) ==
  LET sx == [type |-> "int", i |-> i]
      r == getitem(sx, FALSE, bl, tree, data,
                   CHOOSE o \in Orders(bricks_from_slice(sx, tree)) : TRUE)
  IN  <<r.status, r.ret>>

\* C15: when expand_domain grows the time axis from T to T + D, get at every
\* index below T returns what it returned before, get at every index in
\* [T, T + D) returns the fill value, and every brick that existed keeps its
\* identifier, its origin and its contents and gets no second brick.
C15_ExpandPreserves ==
  [][(total_extents > 0 /\ total_extents' > total_extents) =>
       /\ \A i \in 0..(total_extents - 1) :
            GetIndex(i, brick_list', brick_tree', brick_data')
              = GetIndex(i, brick_list, brick_tree, brick_data)
       /\ \A i \in total_extents..(total_extents' - 1) :
            GetIndex(i, brick_list', brick_tree', brick_data') = <<"ok", <<fill_value>>>>
       /\ \A g \in DOMAIN brick_list :
            /\ g \in DOMAIN brick_list'
            /\ brick_list'[g].origin = brick_list[g].origin
            /\ brick_data'[g] = brick_data[g]
            /\ \A h \in DOMAIN brick_list' :
                 brick_list'[h].origin = brick_list[g].origin => h = g]_vars

\* C16: expand_domain rejects a new extent that is smaller on the time axis and
\* leaves the layer as it was, so that no call of expand_domain decreases the
\* recorded extent of the time axis.
C16_NoShrink ==
  [][call'.op = "expand" => total_extents' >= total_extents]_vars

\* C17: opening a layer on a root whose master file links bricks rebuilds the
\* brick list and the rtree as allocation had left them, and initialising the
\* parameter again allocates no brick for an origin that has one.
C17_ReopenRebuilds ==
  [][/\ call'.op = "open" =>
          (brick_list' = brick_list /\ brick_tree' = brick_tree)
     /\ call'.op = "init" =>
          \A g \in DOMAIN master_links' \ DOMAIN master_links :
            \A h \in DOMAIN master_links :
              master_links'[g].brick_origin # master_links[h].brick_origin]_vars

\* the error _bricks_from_slice raises for a selection of the wrong rank
RankMismatch == "ValueError: incorrect rank"

\* C18: get and set of a selection with more axes than the parameter has fail
\* with the rank-mismatch error; such a selection is never accepted and never
\* cut to the rank of the parameter.
C18_RankMismatch ==
  (call.op \in {"get_tuple", "set_tuple", "value_get"} /\ Len(call.sel) # 1) =>
    call.status = RankMismatch

\* what the claim C19 states for the range sx and a brick at bo of size bs
ClaimedRaise(sx, bo, bs) ==
  \/ sx.start # <<>> /\ sx.start[1] > bo + bs
  \/ sx.stop # <<>> /\ sx.stop[1] < bo

ClaimedStart(sx, bo) == IF sx.start = <<>> THEN 0 ELSE Max(0, sx.start[1] - bo)

ClaimedStop(sx, bo, bs) ==
  IF sx.stop # <<>> /\ sx.stop[1] <= bo + bs THEN Min(bs, sx.stop[1] - bo) ELSE bs

\* C19: for a range with start a, stop b and step k and a brick [bo, bo + bs) of
\* nominal size bs, _calc_slices emits the local start max(0, a - bo) (0 without
\* a), the local stop min(bs, b - bo) if b is given and b <= bo + bs and bs
\* otherwise, and the step k; it raises only if a > bo + bs or b < bo, so a stop
\* equal to bo + bs gives the local stop bs without error.
C19_LocalSlice ==
  (call.op = "get" /\ call.sel.type = "slice") =>
    \A n \in 1..Len(call.slices) :
      LET rec == call.slices[n]
          bo == brick_list[rec.brick].origin
          bs == brick_list[rec.brick].bD
      IN  IF rec.cs.err # ""
            THEN ClaimedRaise(call.sel, bo, bs)
            ELSE /\ rec.cs.start = ClaimedStart(call.sel, bo)
                 /\ rec.cs.stop = ClaimedStop(call.sel, bo, bs)
                 /\ rec.cs.step = call.sel.step

\* the result a worker sent in this step
Sent(w) == results'[w][Len(results'[w])]

\* C20: for each work item a worker receives it sends exactly one result:
\* SUCCESS with the key once every entry has been written, or FAILURE with the
\* key and exactly the entries from the first one whose write did not
\* complete, or FAILURE without key and work when the failure came before the
\* item was decoded; and it sends no result without a work item.
C20_OneResultPerItem ==
  [][\A w \in Workers :
       /\ (wstate[w] = "working" /\ wstate'[w] # "working") =>
            /\ results'[w] = Append(results[w], Sent(w))
            /\ LET work == WorkOf(w)
                   key == KeyOf(w)
               IN  \/ /\ Sent(w) = <<SUCCESS, w, key, <<>>>>
                      /\ brick'[key] = work[Len(work)].id
                   \/ \E n \in 0..(Len(work) - 1) :
                        /\ Sent(w) = <<FAILURE, w, key, SubSeq(work, n + 1, Len(work))>>
                        /\ brick'[key] = IF n = 0 THEN brick[key] ELSE work[n].id
                   \/ /\ Sent(w) = <<FAILURE, w, NullKey, <<>>>>
                      /\ brick' = brick
       /\ Len(results'[w]) > Len(results[w]) =>
            (wstate[w] = "working" /\ wstate'[w] # "working")]_vars

\* a worker was given a list of two entries, wrote the first and reported a
\* failure with the second
C20_Witness ==
  \E w \in Workers : \E i \in 1..Len(results[w]) :
    LET msg == results[w][i]
    IN  /\ msg[1] = FAILURE
        /\ msg[3] \in Keys
        /\ msg[3] \in DOMAIN active_work
        /\ active_work[msg[3]][1] = w
        /\ Len(unpack(active_work[msg[3]][2])[3]) = 2
        /\ msg[4] = <<unpack(active_work[msg[3]][2])[3][2]>>
        /\ brick[msg[3]] = unpack(active_work[msg[3]][2])[3][1].id

\* C21: the organizer discards an item with an empty work list whose key has
\* no stash and changes none of pending, active, stashed and the work queue;
\* when the key has a stash and is not active the whole stash moves to the end
\* of the key's pending list, the key is published to the work queue once if
\* it was not pending, and the stash of the key is removed; when the key is
\* active the stash is left as it is
C21_EmptyItem ==
  [][(/\ prep_queue # <<>>
      /\ prep_queue' = Tail(prep_queue)
      /\ Head(prep_queue)[3] = <<>>)
     => LET k == Head(prep_queue)[1]
        IN  /\ active_work' = active_work
            /\ k \notin DOMAIN stashed_work
                 => UNCHANGED <<pending_work, stashed_work, work_queue>>
            /\ (k \in DOMAIN stashed_work /\ k \in DOMAIN active_work)
                 => UNCHANGED <<pending_work, stashed_work, work_queue>>
            /\ (k \in DOMAIN stashed_work /\ k \notin DOMAIN active_work)
                 => /\ stashed_work' = Drop(stashed_work, k)
                    /\ k \in DOMAIN pending_work'
                    /\ Drop(pending_work', k) = Drop(pending_work, k)
                    /\ pending_work'[k][2] =
                         (IF k \in DOMAIN pending_work THEN pending_work[k][2] ELSE <<>>)
                           \o stashed_work[k][2]
                    /\ work_queue' = IF k \in DOMAIN pending_work
                                       THEN work_queue
                                       ELSE Append(work_queue, k)]_vars

\* an empty work list has moved the stash of a key to pending and published
\* the key
C21_Witness ==
  \E k \in flushed :
    /\ k \notin DOMAIN stashed_work
    /\ k \in DOMAIN pending_work
    /\ pending_work[k][2] # <<>>
    /\ k \in Range(work_queue)

\* the receiver takes a FAILURE without a key sent by worker w
NullKeyFailure(w) ==
  /\ rec_g = "run"
  /\ results[w] # <<>>
  /\ Head(results[w])[1] = FAILURE
  /\ Head(results[w])[3] = NullKey
  /\ results' = [results EXCEPT ![w] = Tail(results[w])]

\* C22: when the receiver gets a FAILURE with a null key from worker w, the
\* key it recovers is the active entry assigned to w whose work w failed on
\* (not work w is processing): that entry is removed from active, one failure
\* is counted against its packed work, and the whole packed work list is
\* re-enqueued for the key, or failure_callback is invoked and nothing is
\* enqueued when the retries are exhausted; when w has no active entry the
\* dispatcher state is left unchanged
C22_NullKeyRecovery ==
  [][\A w \in Workers :
       NullKeyFailure(w) =>
         LET owned == {k \in DOMAIN active_work : active_work[k][1] = w}
         IN  IF owned = {}
               THEN UNCHANGED <<prep_queue, work_queue, pending_work, stashed_work,
                                active_work, failures, called, cb_count>>
               ELSE \E k \in owned :
                      LET pw == active_work[k][2]
                      IN  /\ ~(wstate[w] = "working" /\ KeyOf(w) = k)
                          /\ active_work' = Drop(active_work, k)
                          /\ failures' = add_failure(failures, pw)
                          /\ UNCHANGED <<work_queue, pending_work, stashed_work>>
                          /\ IF add_failure_raises(failures, pw)
                               THEN /\ cb_count' = cb_count + 1
                                    /\ called' = called \cup Ids(unpack(pw)[3])
                                    /\ prep_queue' = prep_queue
                               ELSE /\ prep_queue' = Append(prep_queue, unpack(pw))
                                    /\ UNCHANGED <<called, cb_count>>]_vars

\* the origins of the brick grid of a time axis of extent tD
GridOrigins(tD) == {o \in 0..(tD - 1) : o % calculate_brick_size = 0}

\* C23: after init_parameter and any sequence of expand_domain calls the
\* bricks are exactly one per grid origin (a multiple of the brick extent
\* below the total extent), no two bricks share an origin, every brick has
\* exactly one entry in the brick list, one in the brick index with the bounds
\* origin to origin + size - 1 and one in the manifest, and an expand_domain
\* that leaves the extent as it is creates no brick
C23_OneBrickPerOrigin ==
  /\ [](total_extents > 0 =>
          /\ {brick_list[g].origin : g \in DOMAIN brick_list} = GridOrigins(total_extents)
          /\ \A g, h \in DOMAIN brick_list :
                brick_list[g].origin = brick_list[h].origin => g = h
          /\ DOMAIN master_links = DOMAIN brick_list
          /\ \A g \in DOMAIN brick_list :
                /\ master_links[g].brick_origin = brick_list[g].origin
                /\ Cardinality({e \in brick_tree : e.object = g}) = 1
                /\ \A e \in brick_tree :
                      e.object = g =>
                        e.rtree_extents = <<brick_list[g].origin, 0,
                                            brick_list[g].origin + brick_list[g].bD - 1, 0>>
          /\ {e.object : e \in brick_tree} = DOMAIN brick_list)
  /\ [][(call'.op = "expand" /\ total_extents' = total_extents)
          => UNCHANGED <<brick_list, brick_tree, master_links, brick_data>>]_vars

\* C25: once a valid constant v has been assigned to a ConstantValue through
\* any selection, reading any in-bounds index, index list or range returns v
\* at every selected position; a later valid assignment replaces the constant
\* and an assignment of a value the type rejects leaves the stored constant
\* as it was
C25_ConstantEverywhere ==
  /\ []((pv_call.op = "cget" /\ assigned # <<>>) =>
          /\ pv_call.result.err = ""
          /\ Len(pv_call.result.data) =
                (IF pv_call.result.scalar THEN 1
                 ELSE Len(Selected(fix_slice(as_tuple(pv_call.arg), 1)[1], shape)))
          /\ \A n \in 1..Len(pv_call.result.data) :
                pv_call.result.data[n] = assigned[1])
  /\ [][(pv_call'.op = "cset" /\ ~pv_call'.accepted)
          => constant_value' = constant_value]_vars

\* a constant assigned through one index was replaced through another and is
\* read back at two other indices
C25_Witness ==
  /\ pv_call.op = "cget"
  /\ assigned = <<200>>
  /\ constant_value = <<"c", "*", "2", "0", "0">>
  /\ pv_call.arg = [py |-> "tuple", items |-> <<[type |-> "list", idx |-> <<2, 7>>]>>]
  /\ pv_call.result = [err |-> "", scalar |-> FALSE, data |-> <<200, 200>>]

\* the value after assign 10, expand to 10, assign 20, expand to 20, assign 30,
\* expand to 30
S4Value ==
  /\ shape = 30
  /\ assigned = <<<<0, 10>>, <<10, 20>>, <<20, 30>>>>

\* ten 10s, ten 20s and ten 30s
S4Out == [i \in 0..29 |-> IF i < 10 THEN 10 ELSE IF i < 20 THEN 20 ELSE 30]

\* C24: for a sparse-constant value over a domain of initial length 0, after
\* assign 10, expand to 10, assign 20, expand to 20, assign 30, expand to 30,
\* reading the full range gives ten 10s, ten 20s and ten 30s and reading an
\* index, a sub-range or a stepped range gives the matching elements of that
\* sequence; at every time each index holds the constant assigned last before
\* the domain reached it, and a read while the domain has length 0 gives an
\* empty array
C24_SparseConstant ==
  pv_call.op = "sget" =>
    LET idx == Selected(fix_slice(as_tuple(pv_call.arg), 1)[1], shape)
    IN  /\ pv_call.result.err = ""
        /\ Len(pv_call.result.data) = Len(idx)
        /\ shape = 0 => pv_call.result.data = <<>>
        /\ S4Value => \A n \in 1..Len(idx) : pv_call.result.data[n] = S4Out[idx[n]]
        /\ \A n \in 1..Len(idx) :
              \E k \in 1..Len(assigned) :
                /\ pv_call.result.data[n] = assigned[k][2]
                /\ assigned[k][1] <= idx[n]
                /\ \A j \in (k + 1)..Len(assigned) : assigned[j][1] > idx[n]

\* the full range of the value of the scenario has been read
C24_Witness ==
  /\ S4Value
  /\ pv_call.op = "sget"
  /\ pv_call.arg = [py |-> "one", sx |-> FullSlice]
  /\ pv_call.result.data = [n \in 1..30 |-> S4Out[n - 1]]

\* C28: dataqc_globalrangetest(x, lim) returns, for every element, 1 when
\* min(lim) <= x[i] <= max(lim) and 0 otherwise; x = [9, 10, 16, 17, 18, 19,
\* 20, 25] with lim = [10, 20] gives [0, 1, 1, 1, 1, 1, 1, 0]
C28_GlobalRange ==
  (qc.op = "done" /\ qc.fn = "globalrangetest" /\ Len(qc.datlim) >= 2) =>
    /\ qc.result.err = ""
    /\ Len(qc.result.out) = Len(qc.dat)
    /\ \A i \in 1..Len(qc.dat) :
          qc.result.out[i] =
            (IF /\ \E j \in 1..Len(qc.datlim) : qc.datlim[j] <= qc.dat[i]
                /\ \E j \in 1..Len(qc.datlim) : qc.dat[i] <= qc.datlim[j]
             THEN 1 ELSE 0)
    /\ (qc.dat = <<9, 10, 16, 17, 18, 19, 20, 25>> /\ qc.datlim = <<10, 20>>)
         => qc.result.out = <<0, 1, 1, 1, 1, 1, 1, 0>>

\* the series of the scenario has been tested against the limits 10 and 20
C28_Witness ==
  /\ qc.op = "done"
  /\ qc.fn = "globalrangetest"
  /\ qc.dat = <<9, 10, 16, 17, 18, 19, 20, 25>>
  /\ qc.datlim = <<10, 20>>
  /\ qc.result.out = <<0, 1, 1, 1, 1, 1, 1, 0>>

\* C29: dataqc_spiketest on dat = [-1, 3, 40, -1, 1, -6, -6, 1] with accuracy
\* 0.1, L = 5 and N = 5 returns [1, 1, 0, 1, 1, 1, 1, 1]
C29_ScenarioS2 ==
  (/\ qc.op = "done" /\ qc.fn = "spiketest"
   /\ qc.dat = <<-1, 3, 40, -1, 1, -6, -6, 1>>
   /\ qc.acc = 1 /\ qc.L = 5 /\ qc.N = 5)
    => qc.out = <<1, 1, 0, 1, 1, 1, 1, 1>>

\* the series of the scenario has been tested with L = 5 and N = 5
C29_Witness ==
  /\ qc.op = "done"
  /\ qc.fn = "spiketest"
  /\ qc.dat = <<-1, 3, 40, -1, 1, -6, -6, 1>>
  /\ qc.acc = 1 /\ qc.L = 5 /\ qc.N = 5
  /\ qc.out[3] = 0

\* the peers of the element at position i (from 1) of a series tested with an
\* odd window L: (L - 1) / 2 values on each side, or the first or the last L
\* values without the element when it is within (L - 1) / 2 of an end
Peers(dat, i, L) ==
  LET L2 == (L - 1) \div 2
      ll == Len(dat)
      first == IF i <= L2 THEN 1 ELSE IF i > ll - L2 THEN ll - L + 1 ELSE i - L2
  IN  [n \in 1..(L - 1) |-> dat[IF first + n - 1 < i THEN first + n - 1 ELSE first + n]]

\* C30: dataqc_spiketest marks element i good (1) exactly when
\* N * max(R, acc) > |dat[i] - mean(peers)| with R = max(peers) - min(peers);
\* the peers are the (L - 1) / 2 values on each side, and for an element
\* within (L - 1) / 2 of the start or the end the first or the last L values
\* without the element; every output is 0 when the series is shorter than L
C30_SpikeRule ==
  (qc.op = "done" /\ qc.fn = "spiketest" /\ qc.L % 2 = 1) =>
    /\ Len(qc.out) = Len(qc.dat)
    /\ \A i \in 1..Len(qc.dat) :
          qc.out[i] =
            (IF Len(qc.dat) < qc.L THEN 0
             ELSE LET peers == Peers(qc.dat, i, qc.L)
                      hi == SetMax(Range(peers))
                      lo == SetMin(Range(peers))
                      R10 == IF 10 * (hi - lo) > qc.acc THEN 10 * (hi - lo) ELSE qc.acc
                      d == qc.dat[i] * Len(peers) - SeqSum(peers)
                  IN  IF qc.N * R10 * Len(peers) > 10 * (IF d < 0 THEN -d ELSE d)
                        THEN 1 ELSE 0)

RECURSIVE Nodes(_)
Nodes(fn) ==
  {fn} \cup UNION {Nodes(apply_mapping(fn)[k].fn) :
                     k \in {j \in Range(fn.arg_list) : apply_mapping(fn)[j].t = "fn"}}

\* the modules that own the external callables of the tree
Owners(fn) == {n.owner : n \in {m \in Nodes(fn) : "owner" \in DOMAIN m}}

\* C32 (as stated): get_module_dependencies returns, without duplicates,
\* exactly the owners of the PythonFunction nodes of the expression tree at
\* every depth, and no name that is not such an owner
C32_OwnersOnly ==
  (pf.op = "done" /\ pf.fn = "deps") =>
     /\ \A i, j \in 1..Len(pf.deps) : pf.deps[i] = pf.deps[j] => i = j
     /\ Range(pf.deps) = Owners(pf.self)

\* C32 (amended): get_module_dependencies returns, without duplicates, exactly
\* the owners of the PythonFunction nodes of the expression tree at every
\* depth, together with the name numexpr when the tree has a NumexprFunction
\* node, and no other name
C32_OwnersAndNumexpr ==
  (pf.op = "done" /\ pf.fn = "deps") =>
     /\ \A i, j \in 1..Len(pf.deps) : pf.deps[i] = pf.deps[j] => i = j
     /\ Range(pf.deps) =
          Owners(pf.self)
            \cup (IF \E n \in Nodes(pf.self) : "expression" \in DOMAIN n
                  THEN {"numexpr"} ELSE {})

\* the dependencies of an external callable over a numeric expression over an
\* external callable have been collected: three names from three depths
C32_Witness ==
  /\ pf.op = "done" /\ pf.fn = "deps"
  /\ pf.self = PythonFunction("f", "m3", "g", <<"x", "y">>,
                  "x" :> [t |-> "fn", fn |->
                     NumexprFunction("f", "x+y", <<"x", "y">>,
                        ("x" :> [t |-> "fn", fn |-> PythonFunction("e", "m1", "g", <<"x">>, <<>>)])
                        @@ ("y" :> [t |-> "num", n |-> 1]))])
  /\ pf.deps = <<"m1", "m3", "numexpr">>

\* two expressions agree on name, expression body and argument map at every
\* node
RECURSIVE Agree(_, _)
Agree(a, b) ==
  /\ a.name = b.name
  /\ ("expression" \in DOMAIN a) = ("expression" \in DOMAIN b)
  /\ IF "expression" \in DOMAIN a /\ "expression" \in DOMAIN b
       THEN a.expression = b.expression
       ELSE IF "owner" \in DOMAIN a /\ "owner" \in DOMAIN b
         THEN a.owner = b.owner /\ a.func_name = b.func_name
         ELSE FALSE
  /\ a.arg_list = b.arg_list
  /\ \A k \in Range(a.arg_list) \cap Range(b.arg_list) :
        LET u == apply_mapping(a)[k]
            v == apply_mapping(b)[k]
        IN  /\ u.t = v.t
            /\ u.t = "fn" /\ v.t = "fn" => Agree(u.fn, v.fn)
            /\ u.t = "num" /\ v.t = "num" => u.n = v.n
            /\ u.t = "str" /\ v.t = "str" => u.s = v.s

\* C33: two expressions compare equal exactly when they agree on name,
\* argument map and expression body at every node of the tree; the comparison
\* is symmetric and comparing a numeric expression with an external callable
\* gives unequal, not an error
C33_StructuralEquality ==
  (pf.op = "done" /\ pf.fn = "eq") =>
     /\ pf.result \in {"True", "False"}
     /\ (pf.result = "True") = Agree(pf.self, pf.other)
     /\ pf.result = function_eq(pf.other, pf.self)

C35_QueueIsPending ==
  /\ Range(work_queue) = DOMAIN pending_work
  /\ \A i, j \in 1..Len(work_queue) : work_queue[i] = work_queue[j] => i = j
  /\ DOMAIN pending_work \cap DOMAIN active_work = {}
  /\ \A k \in DOMAIN pending_work : pending_work[k][2] # <<>>

\* two keys wait on the work queue with their pending work while a worker
\* holds nothing yet
C35_Witness ==
  /\ Len(work_queue) = 2
  /\ DOMAIN pending_work = Keys
  /\ \E k \in Keys : Len(pending_work[k][2]) >= 2

\* C36: each worker id is recorded in at most one active entry at any time,
\* and no worker is given work while a result it sent is still unread by the
\* receiver, so that the lookup by worker id on a FAILURE without a key finds
\* the entry of the work that failed
C36_OneEntryPerWorker ==
  \A w \in Workers :
     /\ Cardinality({k \in DOMAIN active_work : active_work[k][1] = w}) <= 1
     /\ wstate[w] = "working" => results[w] = <<>>

\* C37: the failure count of a work item does not outlive the item: work
\* submitted after failure_callback was invoked is retried
\* WORK_FAILURE_RETRIES times before failure_callback is invoked for it,
\* whatever was counted for an earlier submission of identical work
C37_CountDoesNotOutlive ==
  \A i \in called \cap late : attempts[i] = WORK_FAILURE_RETRIES + 1

\* the elements a worker holds, and those a result not yet received carries
HeldIds == UNION {Ids(WorkOf(w)) : w \in {x \in Workers : wstate[x] = "working"}}

FlightIds == UNION {UNION {Ids(results[w][i][4]) : i \in 1..Len(results[w])} : w \in Workers}

\* C38: while the dispatcher runs and shutdown has not been called, every
\* element of every work list put_work accepted is in the inbound queue, in
\* pending, in stashed, in active, with a worker or in the result the worker
\* sent, written to its brick or passed to failure_callback
C38_NoElementLost ==
  (sd = "none" /\ ~is_shutdown) =>
     1..(next_id - 1) \subseteq
        (QueueIds \cup PendingIds \cup StashedIds \cup ActiveIds \cup HeldIds
           \cup FlightIds \cup written \cup called)

\* value_slice of the n-th brick visited by the call, as a set of positions of
\* the result
BufferRange(n) == call.slices[n].cs.lo..(call.slices[n].cs.hi - 1)

\* the cells of the dataset that brick_slice of the n-th visited brick addresses
BrickCells(n) ==
  LET cs == call.slices[n].cs
  IN  {brick_list[call.slices[n].brick].origin + cs.cells[j] : j \in 1..Len(cs.cells)}

\* the selected cells that lie in the n-th visited brick
SelectedIn(n) ==
  LET b == brick_list[call.slices[n].brick]
  IN  {c \in Cells(call.sel, total_extents) : b.origin <= c /\ c < b.origin + b.bD}

\* C39: within one get that computes slices for all the bricks it visits, the
\* buffer ranges of the bricks are pairwise disjoint, each has as many cells as
\* the brick selection, together they cover exactly [0, n) for the result of
\* of the n selected cells, and each brick selection addresses exactly the
\* selected cells that lie in its brick; for ranges with and without a step
\* and index lists.
C39_BufferRanges ==
  (call.op = "get" /\ call.status = "ok") =>
    /\ \A m, n \in 1..Len(call.slices) : m # n => BufferRange(m) \cap BufferRange(n) = {}
    /\ \A n \in 1..Len(call.slices) :
         /\ call.slices[n].cs.hi - call.slices[n].cs.lo = Len(call.slices[n].cs.cells)
         /\ BrickCells(n) = SelectedIn(n)
    /\ UNION {BufferRange(n) : n \in 1..Len(call.slices)} =
         0..(Len(Selected(call.sel, total_extents)) - 1)

\* C40: after init_parameter and any expand_domain calls, the active size
\* recorded for every brick of the brick list is min(total extent, origin +
\* nominal size) - origin for the current total extent, so the active size of
\* a partly filled last brick follows a later expansion over it.
C40_ActiveSize ==
  (total_extents > 0 /\ call.op \in {"init", "expand"}) =>
    \A g \in DOMAIN brick_list :
      brick_list[g].brick_active_size =
        Min(total_extents, brick_list[g].origin + brick_list[g].bD) - brick_list[g].origin

====
